---------------------------- MODULE Spec2Model ----------------------------
(***************************************************************************)
(* Staffing-requirement derivation and employee matching of the warehouse  *)
(* scheduler ("Employee Scheduler TCL").                                   *)
(*                                                                         *)
(* Conventions of the model                                                *)
(*  - a Python dict is a function whose DOMAIN is the set of keys present; *)
(*    an ordered dict additionally carries its key sequence;               *)
(*  - a Python value that may be malformed is a record [kind, val] with    *)
(*    kind "num" (val the number), "none" (None) or "str" (a non-empty,    *)
(*    non-numeric string);                                                 *)
(*  - minutes-per-unit metrics are kept in hundredths of a minute, so that *)
(*    3.75 is 375 and every quotient the code rounds is an exact rational; *)
(*  - strings on which the code performs string operations (job titles,    *)
(*    role keys, synonyms) are sequences of one-character strings.         *)
(***************************************************************************)
EXTENDS Integers, Sequences, FiniteSets, TLC

VARIABLES
    metrics_summaries,   \* argument of calculate_required_roles
    forecast_data,       \* argument of calculate_required_roles
    final_roles,         \* value returned by calculate_required_roles, or NotCalled
    earlier_roles,       \* values returned by the calls before the last one, in order
    employee_collection, \* the employee store: its listing, in storage order
    required_in,         \* argument of assign_employees_to_roles, or NotCalled
    matched_out,         \* value returned by retrieve_employees, or NotCalled
    assigned_out,        \* value returned by assign_employees_to_roles, or NotCalled
    pc,                  \* position of run_scheduler
    locals,              \* local variables of run_scheduler assigned so far
    staffing_collection, \* the staffing-history store: its records, in storage order
    outbox,              \* calls made to the notification service, in order
    returned,            \* value returned by run_scheduler, or NotCalled
    now,                 \* datetime.now() as get_tomorrow_date_range reads it
    date_range,          \* value returned by get_tomorrow_date_range, or NotCalled
    saves,               \* the save_daily_staffing calls made so far, in order
    history_out,         \* value returned by get_staffing_history, or NotCalled
    averages_out,        \* value returned by calculate_moving_averages, or NotCalled
    name_in,             \* argument name of find_best_match, or NotCalled
    list_in,             \* argument employee_list of find_best_match
    match_out,           \* value returned by find_best_match, or NotCalled
    listings,            \* the bulk listings read from the employee store, in order
    scheduling_outcome,  \* how the run_scheduler call of the request handler ended
    http_response,       \* the HTTP response of GET /api/schedule, or NotCalled
    role_key_in,         \* a role key handed to the base-role expression
    base_role_out        \* the base role derived from it, or NotCalled

calcVars == <<metrics_summaries, forecast_data, final_roles, earlier_roles>>

allocVars == <<employee_collection, required_in, matched_out, assigned_out>>

runVars == <<pc, locals, staffing_collection, outbox, returned>>

dateVars == <<now, date_range>>

histVars == <<saves, history_out, averages_out>>

matchVars == <<name_in, list_in, match_out>>

readVars == <<listings>>

apiVars == <<scheduling_outcome, http_response>>

keyVars == <<role_key_in, base_role_out>>

vars == <<calcVars, allocVars, runVars, dateVars, histVars, matchVars, readVars, apiVars,
          keyVars>>

-----------------------------------------------------------------------------
(* Python values and dicts *)

Num(n) == [kind |-> "num", val |-> n]
NoneVal == [kind |-> "none", val |-> 0]
StrVal == [kind |-> "str", val |-> 0]

IsNum(v) == v.kind = "num"

\* dict.get(key, default)
Get(d, key, default) == IF key \in DOMAIN d THEN d[key] ELSE default

\* the dict holding exactly the keys of f whose value is not the marker absent
DictOf(f, absent) == [k \in {x \in DOMAIN f : f[x] # absent} |-> f[k]]

None == [none |-> TRUE]

EmptyDict == DictOf([k \in {"k"} |-> "absent"], "absent")

-----------------------------------------------------------------------------
(* config.py *)

\* WORKFORCE_EFFICIENCY = 0.8, in tenths
WORKFORCE_EFFICIENCY_x10 == 8

\* HOURS_PER_SHIFT = 7.5, in tenths
HOURS_PER_SHIFT_x10 == 75

\* DEFAULT_METRICS, minutes per unit in hundredths
DEFAULT_METRICS ==
    [inbound |-> [avg_offload_time |-> 375, avg_scan_time |-> 50,
                  avg_putaway_time |-> 250, avg_lumper_time |-> 375],
     picking |-> [avg_pick_time |-> 100, avg_scan_time |-> 15,
                  avg_wrap_time |-> 250],
     load    |-> [avg_load_time_per_pallet |-> 375]]

get_metrics_summary == DEFAULT_METRICS

-----------------------------------------------------------------------------
(* metrics_service.py : calculate_required_roles *)

\* rounding with a tie going up
RoundHalfUp(n, d) == (2 * n + d) \div (2 * d)

\* Python round() of the non-negative rational n/d: nearest integer, a tie
\* goes to the even neighbour

round(n, d) ==
    LET q == n \div d
        r == n % d
    IN  IF 2 * r < d THEN q
        ELSE IF 2 * r > d THEN q + 1
        ELSE IF q % 2 = 0 THEN q ELSE q + 1

min(a, b) == IF a <= b THEN a ELSE b
max(a, b) == IF a >= b THEN a ELSE b

\* HOURS_PER_SHIFT * 60 * WORKFORCE_EFFICIENCY  (= 360 minutes)
effective_work_mins_per_person ==
    (HOURS_PER_SHIFT_x10 * 60 * WORKFORCE_EFFICIENCY_x10) \div 100

\* divisor of a value given in hundredths of a minute
PerPerson == 100 * effective_work_mins_per_person

\* the literal final_roles starts from (lines 34-39)
ZeroRoles ==
    [inbound |-> [forklift_driver |-> 0, receiver |-> 0, lumper |-> 0],
     picking |-> [forklift_driver |-> 0],
     loading |-> [forklift_driver |-> 0],
     replenishment |-> [staff |-> 0]]

\* the literal returned by the except branch (lines 111-116)
FallbackRoles ==
    [inbound |-> [forklift_driver |-> 3, receiver |-> 2, lumper |-> 3],
     picking |-> [forklift_driver |-> 2],
     loading |-> [forklift_driver |-> 2],
     replenishment |-> [staff |-> 1]]

\* insertion order of the two literals above
OperationOrder == <<"inbound", "picking", "loading", "replenishment">>

RoleOrder(operation) ==
    IF operation = "inbound" THEN <<"forklift_driver", "receiver", "lumper">>
    ELSE IF operation = "replenishment" THEN <<"staff">>
    ELSE <<"forklift_driver">>

\* the five forecast reads of lines 28-32
FcGet(fc, key) == Get(fc, key, Num(0))

\* An exception is raised inside the try block (lines 27-107)
CalcRaises(ms, fc) ==
    \/ ~IsNum(FcGet(fc, "daily_order_qty"))          \* total_cases/24
    \/ ~IsNum(FcGet(fc, "daily_shipping_pallets"))   \* shipping_pallets + ...
    \/ /\ "inbound" \in DOMAIN ms                    \* incoming_pallets > 0
       /\ ~IsNum(FcGet(fc, "daily_incoming_pallets"))
    \/ /\ "picking" \in DOMAIN ms                    \* cases_to_pick > 0
       /\ ~IsNum(FcGet(fc, "cases_to_pick"))
    \/ /\ "load" \in DOMAIN ms                       \* staged_pallets * load_time
       /\ FcGet(fc, "staged_pallets").kind = "str"

\* `if staged_pallets:` is false for None and for 0 (line 86)
Truthy(v) == IsNum(v) /\ v.val # 0

\* calculated_shipping_pallets = total_cases/24 (line 42), as a numerator over 24
calculated_shipping_pallets_x24(fc) == FcGet(fc, "daily_order_qty").val

\* shipping_pallets + calculated_shipping_pallets (line 43), over 24
shipping_pallets_x24(fc) ==
    24 * FcGet(fc, "daily_shipping_pallets").val + calculated_shipping_pallets_x24(fc)

\* lines 45-60 with a missing inbound block taken for an empty one, so that
\* every .get default applies
inbound_roles_defaulting_block(ms, fc) ==
    LET incoming_pallets == FcGet(fc, "daily_incoming_pallets").val
        inbound == Get(ms, "inbound", EmptyDict)
        total_offload_time == incoming_pallets * Get(inbound, "avg_offload_time", 300)
        total_scan_time    == incoming_pallets * Get(inbound, "avg_scan_time", 15)
        total_putaway_time == incoming_pallets * Get(inbound, "avg_putaway_time", 250)
        total_lumper_time  == incoming_pallets * Get(inbound, "avg_lumper_time", 250)
    IN  IF incoming_pallets > 0
        THEN [forklift_driver |-> min(5, round(total_offload_time, PerPerson))
                                  + min(3, round(total_putaway_time, PerPerson)),
              receiver |-> max(1, round(total_scan_time, PerPerson)),
              lumper   |-> min(5, round(total_lumper_time, PerPerson))]
        ELSE ZeroRoles.inbound

\* lines 45-60
inbound_roles(ms, fc) ==
    LET incoming_pallets == FcGet(fc, "daily_incoming_pallets").val
        inbound == ms["inbound"]
        total_offload_time == incoming_pallets * Get(inbound, "avg_offload_time", 300)
        total_scan_time    == incoming_pallets * Get(inbound, "avg_scan_time", 15)
        total_putaway_time == incoming_pallets * Get(inbound, "avg_putaway_time", 250)
        total_lumper_time  == incoming_pallets * Get(inbound, "avg_lumper_time", 250)
        inbound_forklift == min(5, round(total_offload_time, PerPerson))
        putaway_forklift == min(3, round(total_putaway_time, PerPerson))
    IN  IF "inbound" \in DOMAIN ms /\ incoming_pallets > 0
        THEN [forklift_driver |-> inbound_forklift + putaway_forklift,
              receiver |-> max(1, round(total_scan_time, PerPerson)),
              lumper   |-> min(5, round(total_lumper_time, PerPerson))]
        ELSE ZeroRoles.inbound

\* lines 62-78, the wrap time taken from the adjusted shipping pallets
picking_roles_adjusted(ms, fc) ==
    LET cases_to_pick == FcGet(fc, "cases_to_pick").val
        picking == ms["picking"]
        total_pick_time == cases_to_pick * Get(picking, "avg_pick_time", 100)
        total_wrap_time_x24 ==
            shipping_pallets_x24(fc) * Get(picking, "avg_wrap_time", 250)
    IN  IF "picking" \in DOMAIN ms /\ cases_to_pick > 0
        THEN [forklift_driver |->
                  max(1, round(total_pick_time, PerPerson))
                  + max(1, round(total_wrap_time_x24, 24 * PerPerson))]
        ELSE [forklift_driver |-> 0]

\* lines 62-78
picking_roles(ms, fc) ==
    LET cases_to_pick == FcGet(fc, "cases_to_pick").val
        picking == ms["picking"]
        total_pick_time == cases_to_pick * Get(picking, "avg_pick_time", 100)
        \* calculated_shipping_pallets * avg_wrap_time, over 24
        total_wrap_time_x24 ==
            calculated_shipping_pallets_x24(fc) * Get(picking, "avg_wrap_time", 250)
        pick_forklift == max(1, round(total_pick_time, PerPerson))
        wrap_forklift == max(1, round(total_wrap_time_x24, 24 * PerPerson))
    IN  IF "picking" \in DOMAIN ms /\ cases_to_pick > 0
        THEN [forklift_driver |-> pick_forklift + wrap_forklift]
        ELSE [forklift_driver |-> 0]

\* lines 80-93, the second component assigned with = instead of +=
loading_roles_overwrite(ms, fc) ==
    LET staged == FcGet(fc, "staged_pallets")
        load_time_per_pallet == Get(ms["load"], "avg_load_time_per_pallet", 375)
    IN  IF "load" \notin DOMAIN ms THEN [forklift_driver |-> 0]
        ELSE IF shipping_pallets_x24(fc) > 0
        THEN [forklift_driver |->
                  max(1, round(shipping_pallets_x24(fc) * load_time_per_pallet,
                               24 * PerPerson))]
        ELSE IF Truthy(staged)
        THEN [forklift_driver |->
                  max(1, round(staged.val * load_time_per_pallet, PerPerson))]
        ELSE [forklift_driver |-> 0]

\* lines 80-93
loading_roles(ms, fc) ==
    LET staged_pallets == FcGet(fc, "staged_pallets")
        load == ms["load"]
        load_time_per_pallet == Get(load, "avg_load_time_per_pallet", 375)
        staged_load_time == staged_pallets.val * load_time_per_pallet
        forecast_load_time_x24 == shipping_pallets_x24(fc) * load_time_per_pallet
        stagedPart ==
            IF Truthy(staged_pallets)
            THEN max(1, round(staged_load_time, PerPerson))
            ELSE 0
        forecastPart ==
            IF shipping_pallets_x24(fc) > 0
            THEN max(1, round(forecast_load_time_x24, 24 * PerPerson))
            ELSE 0
    IN  IF "load" \in DOMAIN ms
        THEN [forklift_driver |-> stagedPart + forecastPart]
        ELSE [forklift_driver |-> 0]

\* line 104 without the floor of one
replenishment_staff_no_floor(total_headcount) == round(total_headcount, 10)

\* line 104: max(1, round(total_headcount * 0.1))
replenishment_staff(total_headcount) == max(1, round(total_headcount, 10))

\* The map built by lines 28-107 when nothing raises
CalcBody(ms, fc) ==
    LET inbound == inbound_roles(ms, fc)
        picking == picking_roles(ms, fc)
        loading == loading_roles(ms, fc)
        total_headcount ==
            inbound.forklift_driver + inbound.lumper + inbound.receiver +
            picking.forklift_driver + loading.forklift_driver
    IN  [inbound |-> inbound,
         picking |-> picking,
         loading |-> loading,
         replenishment |-> [staff |-> replenishment_staff(total_headcount)]]

\* an empty forecast taken for a failure: the fallback on merely-zero inputs
calculate_required_roles_eager_fallback(ms, fc) ==
    IF CalcRaises(ms, fc) \/ \A k \in DOMAIN fc : fc[k] = Num(0)
    THEN FallbackRoles
    ELSE CalcBody(ms, fc)

\* only the operations that were computed are put in the result
calculate_required_roles_omitting(ms, fc) ==
    LET r == IF CalcRaises(ms, fc) THEN FallbackRoles ELSE CalcBody(ms, fc)
        metricsKey == [inbound |-> "inbound", picking |-> "picking",
                       loading |-> "load", replenishment |-> "replenishment"]
    IN  [op \in {o \in DOMAIN r :
                    o = "replenishment" \/ metricsKey[o] \in DOMAIN ms} |-> r[op]]

\* lines 15-116: the try block and its except branch
calculate_required_roles(ms, fc) ==
    IF CalcRaises(ms, fc) THEN FallbackRoles ELSE CalcBody(ms, fc)

\* line 43 storing the adjusted shipping pallets into the forecast instead of
\* rebinding the local name
forecast_data_adjusted_in_place(ms, fc) ==
    IF IsNum(FcGet(fc, "daily_order_qty")) /\ IsNum(FcGet(fc, "daily_shipping_pallets"))
    THEN ("daily_shipping_pallets" :> Num(shipping_pallets_x24(fc) \div 24)) @@ fc
    ELSE fc

\* The caller's forecast dict after the call: lines 28-32 read it with .get,
\* line 43 rebinds the local shipping_pallets, and nothing stores into it.
forecast_data_after(ms, fc) == fc

\* The caller's metrics map after the call: lines 45-83 read the blocks with
\* `in`, [] and .get only; final_roles is a fresh dict of each call (line 34).
metrics_summaries_after(ms, fc) == ms

-----------------------------------------------------------------------------
(* Strings as sequences of characters *)

UpperCase ==
    <<"A", "B", "C", "D", "E", "F", "G", "H", "I", "J", "K", "L", "M",
      "N", "O", "P", "Q", "R", "S", "T", "U", "V", "W", "X", "Y", "Z">>

LowerCase ==
    <<"a", "b", "c", "d", "e", "f", "g", "h", "i", "j", "k", "l", "m",
      "n", "o", "p", "q", "r", "s", "t", "u", "v", "w", "x", "y", "z">>

LowerChar(c) ==
    IF \E i \in DOMAIN UpperCase : UpperCase[i] = c
    THEN LowerCase[CHOOSE i \in DOMAIN UpperCase : UpperCase[i] = c]
    ELSE c

\* the string compared as it is written
keep_case(s) == s

\* str.lower()
lower(s) == [i \in 1..Len(s) |-> LowerChar(s[i])]

IsSpace(c) == c = " "

SetMin(S) == CHOOSE x \in S : \A y \in S : x <= y
SetMax(S) == CHOOSE x \in S : \A y \in S : x >= y

\* str.strip()
strip(s) ==
    LET solid == {i \in 1..Len(s) : ~IsSpace(s[i])}
    IN  IF solid = {} THEN <<>> ELSE SubSeq(s, SetMin(solid), SetMax(solid))

\* needle in hay
Contains(hay, needle) ==
    \E i \in 0..(Len(hay) - Len(needle)) : SubSeq(hay, i + 1, i + Len(needle)) = needle

\* re.sub(r's$', '', s)
RemoveTrailingS(s) ==
    IF Len(s) > 0 /\ s[Len(s)] = "s" THEN SubSeq(s, 1, Len(s) - 1) ELSE s

RECURSIVE DropLeadingSpaces(_)
DropLeadingSpaces(s) ==
    IF s # <<>> /\ IsSpace(Head(s)) THEN DropLeadingSpaces(Tail(s)) ELSE s

\* re.sub(r'\s+', '_', s)
RECURSIVE WhitespaceToUnderscore(_)
WhitespaceToUnderscore(s) ==
    IF s = <<>> THEN <<>>
    ELSE IF IsSpace(Head(s))
    THEN <<"_">> \o WhitespaceToUnderscore(DropLeadingSpaces(s))
    ELSE <<Head(s)>> \o WhitespaceToUnderscore(Tail(s))

\* names of the operations and roles of the role maps
s_inbound == <<"i", "n", "b", "o", "u", "n", "d">>
s_picking == <<"p", "i", "c", "k", "i", "n", "g">>
s_loading == <<"l", "o", "a", "d", "i", "n", "g">>
s_replenishment == <<"r", "e", "p", "l", "e", "n", "i", "s", "h", "m", "e", "n", "t">>
s_forklift_driver == <<"f", "o", "r", "k", "l", "i", "f", "t", "_", "d", "r", "i", "v", "e", "r">>
s_receiver == <<"r", "e", "c", "e", "i", "v", "e", "r">>
s_lumper == <<"l", "u", "m", "p", "e", "r">>
s_staff == <<"s", "t", "a", "f", "f">>
s_picker == <<"p", "i", "c", "k", "e", "r">>

Chars ==
    [inbound |-> s_inbound, picking |-> s_picking, loading |-> s_loading,
     replenishment |-> s_replenishment, forklift_driver |-> s_forklift_driver,
     receiver |-> s_receiver, lumper |-> s_lumper, staff |-> s_staff]

\* f"{operation}_{role}"
RoleKey(operation, role) == Chars[operation] \o <<"_">> \o Chars[role]

-----------------------------------------------------------------------------
(* config.py : ROLE_MAPPINGS *)

ROLE_MAPPINGS ==
    (s_forklift_driver :>
        <<<<"f", "o", "r", "k", "l", "i", "f", "t">>,
          <<"f", "o", "r", "k", "l", "i", "f", "t", " ", "d", "r", "i", "v", "e", "r">>,
          <<"f", "o", "r", "k", "l", "i", "f", "t", " ", "o", "p", "e", "r", "a", "t", "o", "r">>,
          <<"l", "i", "f", "t", " ", "d", "r", "i", "v", "e", "r">>,
          <<"L", "e", "v", "e", "l", " ", "1", " ", "F", "o", "r", "k", "l", "i", "f", "t", " ", "D", "r", "i", "v", "e", "r">>,
          <<"L", "e", "v", "e", "l", " ", "2", " ", "F", "o", "r", "k", "l", "i", "f", "t", " ", "D", "r", "i", "v", "e", "r">>,
          <<"L", "e", "v", "e", "l", " ", "3", " ", "F", "o", "r", "k", "l", "i", "f", "t", " ", "D", "r", "i", "v", "e", "r">>>>)
    @@ (s_picker :>
        <<<<"p", "i", "c", "k", "e", "r">>,
          <<"o", "r", "d", "e", "r", " ", "p", "i", "c", "k", "e", "r">>,
          <<"w", "a", "r", "e", "h", "o", "u", "s", "e", " ", "p", "i", "c", "k", "e", "r">>,
          <<"p", "i", "c", "k", "e", "r", "/", "p", "a", "c", "k", "e", "r">>>>)
    @@ (s_lumper :>
        <<<<"l", "u", "m", "p", "e", "r">>,
          <<"L", "u", "m", "p", "e", "r">>>>)
    @@ (s_receiver :>
        <<<<"r", "e", "c", "e", "i", "v", "e", "r">>,
          <<"r", "e", "c", "e", "i", "v", "i", "n", "g">>,
          <<"r", "e", "c", "e", "i", "v", "i", "n", "g", " ", "c", "l", "e", "r", "k">>>>)
    @@ (s_staff :>
        <<<<"s", "t", "a", "f", "f">>,
          <<"g", "e", "n", "e", "r", "a", "l", " ", "l", "a", "b", "o", "r">>,
          <<"w", "a", "r", "e", "h", "o", "u", "s", "e", " ", "w", "o", "r", "k", "e", "r">>,
          <<"w", "a", "r", "e", "h", "o", "u", "s", "e", " ", "a", "s", "s", "o", "c", "i", "a", "t", "e">>>>)

-----------------------------------------------------------------------------
(* Employee records *)

t_forklift_operator == <<"F", "o", "r", "k", "l", "i", "f", "t", " ", "O", "p", "e", "r", "a", "t", "o", "r">>
t_receiving_forklift_operator == <<"R", "e", "c", "e", "i", "v", "i", "n", "g", " ", "F", "o", "r", "k", "l", "i", "f", "t", " ", "O", "p", "e", "r", "a", "t", "o", "r">>
t_level_2_forklift_driver == <<"L", "e", "v", "e", "l", " ", "2", " ", "F", "o", "r", "k", "l", "i", "f", "t", " ", "D", "r", "i", "v", "e", "r">>
t_lumpers == <<"L", "u", "m", "p", "e", "r", "s">>
t_receiving_clerk == <<"R", "e", "c", "e", "i", "v", "i", "n", "g", " ", "C", "l", "e", "r", "k">>
t_lumper == <<"L", "u", "m", "p", "e", "r">>

\* the shapes of metadata: as written by the import (no availability field),
\* and with the availability fields set
EmployeeProfiles ==
    {[original_job_title |-> t_forklift_operator],
     [original_job_title |-> t_receiving_forklift_operator, active |-> TRUE,
      on_leave |-> FALSE, shift_preferences |-> <<"night", "day">>],
     [original_job_title |-> t_level_2_forklift_driver, active |-> TRUE,
      on_leave |-> TRUE],
     [original_job_title |-> t_lumpers, active |-> FALSE, on_leave |-> FALSE,
      shift_preferences |-> <<>>],
     [original_job_title |-> t_receiving_clerk, active |-> TRUE,
      on_leave |-> FALSE, shift_preferences |-> <<"night">>],
     [original_job_title |-> t_lumper, active |-> TRUE, on_leave |-> FALSE,
      shift_preferences |-> <<>>]}

-----------------------------------------------------------------------------
(* database.py *)

\* lines 14-29
normalize_role(role) ==
    WhitespaceToUnderscore(RemoveTrailingS(strip(lower(role))))

\* lines 92-119, the leave check left out
is_employee_available_ignoring_leave(metadata) ==
    /\ Get(metadata, "active", TRUE)
    /\ LET shift_preferences == Get(metadata, "shift_preferences", <<>>)
       IN  ~(shift_preferences # <<>>
             /\ \A i \in DOMAIN shift_preferences : shift_preferences[i] # "day")

\* lines 92-119 with an employee counted as active only when the record says so
is_employee_available_when_flagged(metadata) ==
    /\ Get(metadata, "active", FALSE)
    /\ ~Get(metadata, "on_leave", FALSE)
    /\ LET shift_preferences == Get(metadata, "shift_preferences", <<>>)
       IN  ~(shift_preferences # <<>>
             /\ \A i \in DOMAIN shift_preferences : shift_preferences[i] # "day")

\* lines 92-119
is_employee_available(metadata) ==
    /\ Get(metadata, "active", TRUE)
    /\ ~Get(metadata, "on_leave", FALSE)
    /\ LET shift_preferences == Get(metadata, "shift_preferences", <<>>)
       IN  ~(shift_preferences # <<>>
             /\ \A i \in DOMAIN shift_preferences : shift_preferences[i] # "day")

\* role_key.split('_', 1)[-1] if '_' in role_key else role_key  (lines 59, 70)
\* the text after the last underscore, as rsplit('_', 1) gives it
BaseRoleAfterLastUnderscore(role_key) ==
    IF \E i \in 1..Len(role_key) : role_key[i] = "_"
    THEN LET last == CHOOSE i \in 1..Len(role_key) :
                         /\ role_key[i] = "_"
                         /\ \A j \in (i + 1)..Len(role_key) : role_key[j] # "_"
         IN  SubSeq(role_key, last + 1, Len(role_key))
    ELSE role_key

BaseRole(role_key) ==
    IF \E i \in 1..Len(role_key) : role_key[i] = "_"
    THEN LET first == CHOOSE i \in 1..Len(role_key) :
                          /\ role_key[i] = "_"
                          /\ \A j \in 1..(i - 1) : role_key[j] # "_"
         IN  SubSeq(role_key, first + 1, Len(role_key))
    ELSE role_key

\* any(variation.lower() in job_title for variation in role_variations) (lines 60-62)
MatchesBaseRole(job_title, base_role) ==
    LET role_variations == Get(ROLE_MAPPINGS, base_role, <<base_role>>)
    IN  \E v \in DOMAIN role_variations : Contains(job_title, lower(role_variations[v]))

\* The test of lines 54-62 on an employee's original_job_title. The outcome
\* for the job titles of EmployeeProfiles and the base roles of ROLE_MAPPINGS
\* is tabulated, so that it is evaluated once and not in every step.
JobTitles == {m.original_job_title : m \in EmployeeProfiles}

MatchTable ==
    [t \in JobTitles |->
        [b \in DOMAIN ROLE_MAPPINGS |-> MatchesBaseRole(normalize_role(t), b)]]

JobTitleMatches(original_job_title, base_role) ==
    IF original_job_title \in JobTitles /\ base_role \in DOMAIN ROLE_MAPPINGS
    THEN MatchTable[original_job_title][base_role]
    ELSE MatchesBaseRole(normalize_role(original_job_title), base_role)

\* available_by_role[base_role].append(emp_id)  (lines 63-65)
DictAppend(d, key, x) ==
    IF key \in DOMAIN d THEN [d EXCEPT ![key] = Append(@, x)] ELSE d @@ (key :> <<x>>)

\* First pass (lines 50-65): step n visits employee n \div K + 1 and role key
\* n % K + 1, K the number of role keys
RECURSIVE FirstPass(_, _, _, _)
FirstPass(n, all_employees, keys, available_by_role) ==
    IF n >= Len(all_employees) * Len(keys) THEN available_by_role
    ELSE LET i == (n \div Len(keys)) + 1
             role_key == keys[(n % Len(keys)) + 1]
             metadata == all_employees[i].metadata
             emp_id == all_employees[i].id
             original_job_title == Get(metadata, "original_job_title", <<>>)
             base_role == BaseRole(role_key)
         IN  FirstPass(n + 1, all_employees, keys,
                 IF is_employee_available(metadata)
                    /\ JobTitleMatches(original_job_title, base_role)
                 THEN DictAppend(available_by_role, base_role, emp_id)
                 ELSE available_by_role)

\* lines 77-81 without the assigned_employees test
RECURSIVE TakeAvailableNoDedup(_, _, _, _)
TakeAvailableNoDedup(available, assigned, taken, required_count) ==
    IF available = <<>> THEN taken
    ELSE IF Len(taken) < required_count
    THEN TakeAvailableNoDedup(Tail(available), assigned,
                              Append(taken, Head(available)), required_count)
    ELSE TakeAvailableNoDedup(Tail(available), assigned, taken, required_count)

\* lines 77-81 without the quota test
RECURSIVE TakeAvailableNoQuota(_, _, _, _)
TakeAvailableNoQuota(available, assigned, taken, required_count) ==
    IF available = <<>> THEN taken
    ELSE IF Head(available) \notin assigned
    THEN TakeAvailableNoQuota(Tail(available), assigned \cup {Head(available)},
                              Append(taken, Head(available)), required_count)
    ELSE TakeAvailableNoQuota(Tail(available), assigned, taken, required_count)

\* lines 77-81 walking the pool from its end
RECURSIVE TakeAvailableFromEnd(_, _, _, _)
TakeAvailableFromEnd(available, assigned, taken, required_count) ==
    IF available = <<>> THEN taken
    ELSE LET last == available[Len(available)]
             front == SubSeq(available, 1, Len(available) - 1)
         IN  IF last \notin assigned /\ Len(taken) < required_count
             THEN TakeAvailableFromEnd(front, assigned \cup {last},
                                       Append(taken, last), required_count)
             ELSE TakeAvailableFromEnd(front, assigned, taken, required_count)

\* The inner loop of the second pass (lines 77-81): the ids appended to
\* matched_employees[role_key]
RECURSIVE TakeAvailable(_, _, _, _)
TakeAvailable(available, assigned, taken, required_count) ==
    IF available = <<>> THEN taken
    ELSE IF Head(available) \notin assigned /\ Len(taken) < required_count
    THEN TakeAvailable(Tail(available), assigned \cup {Head(available)},
                       Append(taken, Head(available)), required_count)
    ELSE TakeAvailable(Tail(available), assigned, taken, required_count)

Range(seq) == {seq[i] : i \in DOMAIN seq}

\* Second pass (lines 67-85) from role key j on
RECURSIVE SecondPass(_, _, _, _, _)
SecondPass(j, required, available_by_role, matched, assigned_employees) ==
    IF j > Len(required.keys) THEN matched
    ELSE LET role_key == required.keys[j]
             base_role == BaseRole(role_key)
             required_count == required.val[role_key]
             available == Get(available_by_role, base_role, <<>>)
             taken == TakeAvailable(available, assigned_employees, <<>>, required_count)
         IN  SecondPass(j + 1, required, available_by_role,
                        matched @@ (role_key :> taken),
                        assigned_employees \cup Range(taken))

\* an ordered dict: its keys in insertion order and its values
OrderedDict(keys, val) == [keys |-> keys, val |-> val]

EmptyOrderedDict == OrderedDict(<<>>, EmptyDict)

\* line 46: the bulk listing one call of retrieve_employees reads from the
\* store, or the failure of that read
BulkListing(all_employees, db_fails) ==
    [ok |-> ~db_fails, employees |-> IF db_fails THEN <<>> ELSE all_employees]

\* lines 31-90; db_fails: employee_collection.get() raises (line 46), which
\* the except branch turns into the still empty matched_employees
retrieve_employees(required, all_employees, db_fails) ==
    IF db_fails THEN EmptyOrderedDict
    ELSE OrderedDict(required.keys,
             SecondPass(1, required,
                        FirstPass(0, all_employees, required.keys, EmptyDict),
                        EmptyDict, {}))

-----------------------------------------------------------------------------
(* schedule_service.py : assign_employees_to_roles *)

\* the nested loops of lines 78-81 (and staffing_history.py 27-30): the role
\* keys in insertion order
RECURSIVE FlatItems(_, _)
FlatItems(ops, required_roles) ==
    IF ops = <<>> THEN <<>>
    ELSE LET operation == Head(ops)
             roles == SelectSeq(RoleOrder(operation),
                                LAMBDA role : role \in DOMAIN required_roles[operation])
         IN  [i \in 1..Len(roles) |->
                 [role_key |-> RoleKey(operation, roles[i]),
                  count |-> required_roles[operation][roles[i]]]]
             \o FlatItems(Tail(ops), required_roles)

PresentOps(required_roles) ==
    SelectSeq(OperationOrder, LAMBDA op : op \in DOMAIN required_roles)

\* flattened_roles (lines 77-81)
Flatten(required_roles) ==
    LET items == FlatItems(PresentOps(required_roles), required_roles)
    IN  OrderedDict([i \in 1..Len(items) |-> items[i].role_key],
            [k \in {items[i].role_key : i \in 1..Len(items)} |->
                items[CHOOSE i \in 1..Len(items) : items[i].role_key = k].count])

\* available_employees[:count]
Prefix(seq, count) == SubSeq(seq, 1, IF count < Len(seq) THEN count ELSE Len(seq))

\* lines 86-93
AssignUpTo(flattened_roles, matched_employees) ==
    OrderedDict(flattened_roles.keys,
        [role_key \in Range(flattened_roles.keys) |->
            Prefix(Get(matched_employees.val, role_key, <<>>),
                   flattened_roles.val[role_key])])

\* lines 63-98
assign_employees_to_roles(required_roles, all_employees, db_fails) ==
    AssignUpTo(Flatten(required_roles),
               retrieve_employees(Flatten(required_roles), all_employees, db_fails))

-----------------------------------------------------------------------------
(* api_client.py : get_outbound_orders, get_picked_outbound_orders *)

\* the outcome of requests.post / raise_for_status / response.json: the
\* request raised, or it answered with the raw orders of results.data
RequestFailed == [failed |-> TRUE]
Answered(data) == [failed |-> FALSE, data |-> data]

\* a raw order of the status report
RawOrder(pallet_qty, order_qty, picking_type) ==
    [Pallet_QTY |-> pallet_qty, Order_QTY |-> order_qty, Picking_Type |-> picking_type]

\* lines 230-253: float() of a raw quantity raises on None and on text, and
\* the order is then left out
RECURSIVE ProcessedOrders(_)
ProcessedOrders(orders) ==
    IF orders = <<>> THEN <<>>
    ELSE LET order == Head(orders)
         IN  (IF IsNum(order.Pallet_QTY) /\ IsNum(order.Order_QTY)
              THEN <<[pallet_qty |-> order.Pallet_QTY.val,
                      order_qty |-> order.Order_QTY.val,
                      picking_type |-> order.Picking_Type]>>
              ELSE <<>>)
             \o ProcessedOrders(Tail(orders))

\* lines 196-259; a request that raises gives the empty list (line 259)
get_outbound_orders(response) ==
    IF response.failed THEN <<>> ELSE ProcessedOrders(response.data)

\* lines 295-313: a picked order whose quantities do not convert is kept,
\* with both quantities 0
RECURSIVE ProcessedPickedOrders(_)
ProcessedPickedOrders(orders) ==
    IF orders = <<>> THEN <<>>
    ELSE LET order == Head(orders)
             converts == IsNum(order.Pallet_QTY) /\ IsNum(order.Order_QTY)
         IN  <<[pallet_qty |-> IF converts THEN order.Pallet_QTY.val ELSE 0,
                order_qty |-> IF converts THEN order.Order_QTY.val ELSE 0]>>
             \o ProcessedPickedOrders(Tail(orders))

\* lines 261-319
get_picked_outbound_orders(response) ==
    IF response.failed THEN <<>> ELSE ProcessedPickedOrders(response.data)

-----------------------------------------------------------------------------
(* schedule_service.py : get_orders_for_scheduling *)

RECURSIVE SumOf(_, _)
SumOf(orders, field) ==
    IF orders = <<>> THEN 0 ELSE Head(orders)[field] + SumOf(Tail(orders), field)

\* lines 34-41
CasesToPick(outbound_orders) ==
    SumOf(SelectSeq(outbound_orders,
              LAMBDA order : /\ order.picking_type \in {"PIECE_PICK", "CASE_PICK"}
                             /\ order.pallet_qty = 0),
          "order_qty")

\* what get_incoming_data gave: it raised, or the summary with its pallets
IncomingRaised == [raised |-> TRUE]
Incoming(incoming_pallets) == [raised |-> FALSE, incoming_pallets |-> incoming_pallets]

\* lines 20-61: the forecast of one day, and the empty dict when anything
\* inside the try raised
get_orders_for_scheduling(outbound_response, picked_response, incoming_data) ==
    LET outbound_orders == get_outbound_orders(outbound_response)
        picked_orders == get_picked_outbound_orders(picked_response)
    IN  IF incoming_data.raised THEN EmptyDict
        ELSE [daily_shipping_pallets |-> Num(SumOf(outbound_orders, "pallet_qty")),
              daily_incoming_pallets |-> Num(incoming_data.incoming_pallets),
              daily_order_qty |-> Num(SumOf(outbound_orders, "order_qty")),
              cases_to_pick |-> Num(CasesToPick(outbound_orders)),
              staged_pallets |-> Num(SumOf(picked_orders, "pallet_qty"))]

-----------------------------------------------------------------------------
(* notification_service.py : send_schedule_email, send_combined_forecast_email *)

\* lines 440-475 for the employees of one role: the employee is looked up
\* and mailed, and whatever happens the loop goes on with the next one
RECURSIVE MailEmployees(_, _, _)
MailEmployees(role, employees, delivery) ==
    IF employees = <<>> THEN <<>>
    ELSE <<[emp_id |-> Head(employees), role |-> role,
            delivery |-> delivery[Head(employees)]]>>
         \o MailEmployees(role, Tail(employees), delivery)

\* the same loop without the try of line 441: the first error ends it
RECURSIVE MailEmployeesUntilError(_, _, _)
MailEmployeesUntilError(role, employees, delivery) ==
    IF employees = <<>> THEN <<>>
    ELSE <<[emp_id |-> Head(employees), role |-> role,
            delivery |-> delivery[Head(employees)]]>>
         \o (IF delivery[Head(employees)] = "error" THEN <<>>
             ELSE MailEmployeesUntilError(role, Tail(employees), delivery))

\* line 432: the loop over the roles
RECURSIVE MailRoles(_, _, _)
MailRoles(roles, assigned_employees, delivery) ==
    IF roles = <<>> THEN <<>>
    ELSE MailEmployees(Head(roles), assigned_employees.val[Head(roles)], delivery)
         \o MailRoles(Tail(roles), assigned_employees, delivery)

RECURSIVE MailRolesUntilError(_, _, _)
MailRolesUntilError(roles, assigned_employees, delivery) ==
    IF roles = <<>> THEN <<>>
    ELSE LET mailed == MailEmployeesUntilError(Head(roles),
                           assigned_employees.val[Head(roles)], delivery)
         IN  IF \E n \in DOMAIN mailed : mailed[n].delivery = "error"
             THEN mailed
             ELSE mailed \o MailRolesUntilError(Tail(roles), assigned_employees, delivery)

send_schedule_email_until_error(configured, date, assigned_employees, delivery) ==
    LET attempts == MailRolesUntilError(assigned_employees.keys, assigned_employees, delivery)
    IN  [call |-> "send_schedule_email", date |-> date,
         assigned_employees |-> assigned_employees, configured |-> configured,
         result |-> configured /\ \A n \in DOMAIN attempts : attempts[n].delivery # "error",
         attempts |-> IF configured THEN attempts ELSE <<>>]

\* lines 420-481. delivery[emp_id] is what happens to the mail of an employee:
\* "sent"; "no_data" (get_employee_details gave nothing, or no email, lines
\* 443-451); "error" (an exception of the lookup, of the message or of SMTP,
\* caught at line 473). configured: sender_email and sender_password are set.
send_schedule_email(configured, date, assigned_employees, delivery) ==
    [call |-> "send_schedule_email", date |-> date,
     assigned_employees |-> assigned_employees, configured |-> configured,
     result |-> configured,
     attempts |-> IF configured
                  THEN MailRoles(assigned_employees.keys, assigned_employees, delivery)
                  ELSE <<>>]

\* lines 483-806; mail_fails: building or sending the message raises, which
\* the except of line 804 turns into the result False
send_combined_forecast_email(configured, tomorrow_staff, day_after_staff, shortages, mail_fails) ==
    [call |-> "send_combined_forecast_email",
     required_roles_tomorrow |-> tomorrow_staff,
     required_roles_day_after |-> day_after_staff,
     shortages |-> shortages, configured |-> configured,
     result |-> configured /\ ~mail_fails]

-----------------------------------------------------------------------------
(* main.py : GET /api/schedule *)

\* how the call of run_scheduler ended: with a value, or with an exception
Returned(value) == [raised |-> FALSE, value |-> value]
Raised(exception) == [raised |-> TRUE, exception |-> exception]

HTTPException(status_code, detail) == [status_code |-> status_code, detail |-> detail]

\* f"Error generating schedule: {str(e)}", kept as its text and the exception
\* whose str() it embeds
ErrorDetail(e) == [text |-> "Error generating schedule: ", e |-> e]

\* `not scheduling_data`
IsFalsy(scheduling_data) == scheduling_data = None \/ scheduling_data = EmptyDict

\* lines 58-73. The HTTPException of line 61 is raised inside the try, and
\* the `except Exception` of line 69 catches it like any other exception.
get_schedule(outcome) ==
    IF outcome.raised
    THEN HTTPException(500, ErrorDetail(outcome.exception))
    ELSE IF IsFalsy(outcome.value)
         THEN HTTPException(500,
                  ErrorDetail(HTTPException(404, "No scheduling data available for tomorrow")))
         ELSE [status_code |-> 200, body |-> [success |-> TRUE, data |-> outcome.value]]

-----------------------------------------------------------------------------
(* schedule_service.py : run_scheduler *)

\* The loop of lines 148-155. The `if` of line 154 is indented as a statement
\* of the outer loop: it runs once per operation, after the inner loop, on the
\* role_key, required_count and assigned_count the last role left behind.
RECURSIVE ShortagesLoop(_, _, _, _)
ShortagesLoop(ops, required_roles_tomorrow, assigned_employees_tomorrow, shortages) ==
    IF ops = <<>> THEN shortages
    ELSE LET operation == Head(ops)
             roles == SelectSeq(RoleOrder(operation),
                          LAMBDA role : role \in DOMAIN required_roles_tomorrow[operation])
             role_key == RoleKey(operation, roles[Len(roles)])
             required_count == required_roles_tomorrow[operation][roles[Len(roles)]]
             assigned_count == Len(Get(assigned_employees_tomorrow.val, role_key, <<>>))
         IN  ShortagesLoop(Tail(ops), required_roles_tomorrow,
                 assigned_employees_tomorrow,
                 IF assigned_count < required_count
                 THEN (role_key :> (required_count - assigned_count)) @@ shortages
                 ELSE shortages)

calculate_shortages(required_roles_tomorrow, assigned_employees_tomorrow) ==
    ShortagesLoop(PresentOps(required_roles_tomorrow), required_roles_tomorrow,
                  assigned_employees_tomorrow, EmptyDict)

-----------------------------------------------------------------------------
(* api_client.py : get_tomorrow_date_range *)

\* A datetime is a record [day, hour, minute, second, microsecond]; day counts
\* the calendar days from a Monday, so that weekday() is day modulo 7
\* (Monday 0 ... Saturday 5, Sunday 6).
datetime(day, hour, minute, second, microsecond) ==
    [day |-> day, hour |-> hour, minute |-> minute, second |-> second,
     microsecond |-> microsecond]

weekday(dt) == dt.day % 7

\* dt + timedelta(days=n)
plus_days(dt, n) == [dt EXCEPT !.day = dt.day + n]

\* a < b and a <= b of two datetimes
SecondOfDay(dt) == (dt.hour * 60 + dt.minute) * 60 + dt.second

Before(a, b) ==
    \/ a.day < b.day
    \/ a.day = b.day /\ SecondOfDay(a) < SecondOfDay(b)
    \/ a.day = b.day /\ SecondOfDay(a) = SecondOfDay(b) /\ a.microsecond < b.microsecond

NotAfter(a, b) == a = b \/ Before(a, b)

\* lines 31-34, 37-40, 46-49 with Sunday left as it is
skip_weekend_saturday_only(dt) ==
    IF weekday(dt) = 5 THEN plus_days(dt, 2) ELSE dt

\* lines 31-34, 37-40, 46-49: Saturday and Sunday move to Monday
skip_weekend(dt) ==
    IF weekday(dt) = 5 THEN plus_days(dt, 2)
    ELSE IF weekday(dt) = 6 THEN plus_days(dt, 1)
    ELSE dt

\* lines 43-49 left out: day_after as the weekend skip alone gives it
ensure_after_absent(tomorrow, day_after) == day_after

\* lines 43-49
ensure_after(tomorrow, day_after) ==
    IF NotAfter(day_after, tomorrow)
    THEN skip_weekend(plus_days(tomorrow, 1))
    ELSE day_after

\* lines 22-57; replace(hour, minute, second) keeps the microsecond, which
\* line 24 has set to 0
get_tomorrow_date_range(current) ==
    LET today == [current EXCEPT !.hour = 0, !.minute = 0, !.second = 0,
                                 !.microsecond = 0]
        tomorrow == skip_weekend(plus_days(today, 1))
        day_after == ensure_after(tomorrow, skip_weekend(plus_days(today, 2)))
    IN  [tomorrow_start |-> [tomorrow EXCEPT !.hour = 0, !.minute = 0, !.second = 0],
         tomorrow_end |-> [tomorrow EXCEPT !.hour = 23, !.minute = 59, !.second = 59],
         day_after_start |-> [day_after EXCEPT !.hour = 0, !.minute = 0, !.second = 0],
         day_after_end |-> [day_after EXCEPT !.hour = 23, !.minute = 59, !.second = 59]]

-----------------------------------------------------------------------------
(* staffing_history.py *)

\* json.dumps of a dict of counts: the text lists the pairs key, value in the
\* insertion order of the dict
json_dumps(d) == [i \in 1..Len(d.keys) |-> <<d.keys[i], d.val[d.keys[i]]>>]

\* json.loads of such a text: the dict of its pairs, in the order of the text
json_loads(text) ==
    OrderedDict([i \in 1..Len(text) |-> text[i][1]],
        [k \in {text[i][1] : i \in 1..Len(text)} |->
            text[CHOOSE i \in 1..Len(text) : text[i][1] = k][2]])

\* collection.add: the record is stored whether or not the id exists
add(collection, id, metadata) ==
    Append(collection, [id |-> id, metadata |-> metadata])

\* collection.upsert(ids=[id], metadatas=[metadata]) (lines 41-45): the record
\* with that id is replaced where it stands, a new id is stored at the end
upsert(collection, id, metadata) ==
    IF \E i \in DOMAIN collection : collection[i].id = id
    THEN [i \in DOMAIN collection |->
            IF collection[i].id = id
            THEN [id |-> id, metadata |-> metadata]
            ELSE collection[i]]
    ELSE Append(collection, [id |-> id, metadata |-> metadata])

\* lines 13-51; store_fails: the upsert raises and the except branch returns
\* False, the store as it was
save_daily_staffing(collection, date, required_roles, store_fails) ==
    IF store_fails THEN collection
    ELSE upsert(collection, date,
                [date |-> date, roles |-> json_dumps(Flatten(required_roles))])

\* datetime.strptime(date, "%Y-%m-%d"): midnight of the day the text names
strptime(date) == datetime(date, 0, 0, 0, 0)

\* sorted(records, key=date): a stable insertion sort
RECURSIVE InsertByDate(_, _)
InsertByDate(sorted, record) ==
    IF sorted = <<>> THEN <<record>>
    ELSE IF record.date < Head(sorted).date THEN <<record>> \o sorted
    ELSE <<Head(sorted)>> \o InsertByDate(Tail(sorted), record)

RECURSIVE SortByDate(_)
SortByDate(records) ==
    IF records = <<>> THEN <<>>
    ELSE InsertByDate(SortByDate(SubSeq(records, 1, Len(records) - 1)),
                      records[Len(records)])

\* line 77 with the upper end of the window left open
in_range_from_start(start_date, record_date, end_date) ==
    NotAfter(start_date, record_date)

\* line 77: start_date <= record_date <= end_date, on datetimes
in_range(start_date, record_date, end_date) ==
    NotAfter(start_date, record_date) /\ NotAfter(record_date, end_date)

\* lines 53-89, with current the value of datetime.now(); store_fails: the
\* read of the store raises and the except branch returns []
get_staffing_history(collection, current, days, store_fails) ==
    IF store_fails \/ collection = <<>> THEN <<>>
    ELSE LET end_date == current
             start_date == plus_days(end_date, -(days - 1))
             kept == SelectSeq(collection,
                        LAMBDA rec : in_range(start_date, strptime(rec.metadata.date),
                                              end_date))
         IN  SortByDate([i \in 1..Len(kept) |->
                            [date |-> kept[i].metadata.date,
                             roles |-> json_loads(kept[i].metadata.roles)]])

\* lines 111-117: the sum and the number of the counts of one role
RECURSIVE role_totals(_, _)
role_totals(history, role) ==
    IF history = <<>> THEN 0
    ELSE Get(Head(history).roles.val, role, 0) + role_totals(Tail(history), role)

RECURSIVE role_counts(_, _)
role_counts(history, role) ==
    IF history = <<>> THEN 0
    ELSE (IF role \in DOMAIN Head(history).roles.val THEN 1 ELSE 0)
         + role_counts(Tail(history), role)

\* line 123 with the number of records of the window as divisor
average_over_window(history, role) ==
    round(10 * role_totals(history, role), Len(history))

\* line 123: round(total / count, 1), in tenths
average(history, role) ==
    round(10 * role_totals(history, role), role_counts(history, role))

\* lines 91-129; the averages are kept in tenths, 4.0 is 40
calculate_moving_averages(collection, current, days, store_fails) ==
    LET history == get_staffing_history(collection, current, days, store_fails)
        roles == UNION {DOMAIN history[i].roles.val : i \in 1..Len(history)}
    IN  IF history = <<>> THEN EmptyDict
        ELSE [role \in roles |-> average(history, role)]

-----------------------------------------------------------------------------
(* database.py : find_best_match *)

\* Levenshtein.distance(a, b): the last cell of the edit-distance table, built
\* row by row
RECURSIVE BuildRow(_, _, _, _)
BuildRow(prev, c, b, cur) ==
    IF Len(cur) = Len(b) + 1 THEN cur
    ELSE LET j == Len(cur)
             substitute == prev[j] + (IF c = b[j] THEN 0 ELSE 1)
         IN  BuildRow(prev, c, b,
                 Append(cur, min(min(prev[j + 1] + 1, cur[j] + 1), substitute)))

RECURSIVE Rows(_, _, _, _)
Rows(a, b, i, prev) ==
    IF i > Len(a) THEN prev
    ELSE Rows(a, b, i + 1, BuildRow(prev, a[i], b, <<i>>))

distance(a, b) == Rows(a, b, 1, [j \in 1..(Len(b) + 1) |-> j - 1])[Len(b) + 1]

\* float('inf') and the distances recorded in best_score
Infinity == [inf |-> TRUE, val |-> 0]
Score(d) == [inf |-> FALSE, val |-> d]

\* an Optional[str]: None, or an employee id
Found(emp_id) == [none |-> FALSE, id |-> emp_id]

\* employee_collection.get(ids=[emp_id])["metadatas"]
Lookup(collection, emp_id) ==
    LET at == {i \in DOMAIN collection : collection[i].id = emp_id}
    IN  [i \in 1..Cardinality(at) |-> collection[CHOOSE k \in at : TRUE].metadata]

\* the text stored under name_variations: the JSON of a list of strings, or a
\* text json.loads raises on
JsonList(list) == [valid |-> TRUE, list |-> list]
InvalidJson == [valid |-> FALSE, list |-> <<>>]

\* line 162 with <=: a later candidate at the same distance takes over
closer_or_equal(new_distance, best_score) ==
    best_score.inf \/ new_distance <= best_score.val

\* line 162: distance < best_score
closer(new_distance, best_score) ==
    best_score.inf \/ new_distance < best_score.val

\* lines 153-164: st holds best_match, best_score and, once line 158 has
\* returned, the value returned
RECURSIVE VariationsLoop(_, _, _, _)
VariationsLoop(name_lower, emp_id, name_variations, st) ==
    IF name_variations = <<>> THEN st
    ELSE LET variation_lower == lower(Head(name_variations))
             new_distance == distance(name_lower, variation_lower)
         IN  IF name_lower = variation_lower
             THEN [st EXCEPT !.returned = Found(emp_id)]
             ELSE VariationsLoop(name_lower, emp_id, Tail(name_variations),
                      IF closer(new_distance, st.best_score)
                      THEN [st EXCEPT !.best_score = Score(new_distance),
                                      !.best_match = Found(emp_id)]
                      ELSE st)

\* lines 137-166
RECURSIVE CandidatesLoop(_, _, _, _)
CandidatesLoop(name_lower, employee_list, collection, st) ==
    IF employee_list = <<>> \/ st.returned # None THEN st
    ELSE LET emp_id == Head(employee_list)
             metadatas == Lookup(collection, emp_id)
             name_variations_json == Get(metadatas[1], "name_variations", JsonList(<<>>))
             stored == name_variations_json.list
             name_variations == IF stored = <<>> THEN <<emp_id>> ELSE stored
         IN  CandidatesLoop(name_lower, Tail(employee_list), collection,
                 IF metadatas = <<>> THEN st                       \* line 142
                 ELSE IF ~name_variations_json.valid THEN st       \* line 165
                 ELSE VariationsLoop(name_lower, emp_id, name_variations, st))

\* lines 121-171; best_score <= len(name) * 0.3 in tenths
find_best_match(name, employee_list, collection) ==
    LET st == CandidatesLoop(lower(name), employee_list, collection,
                  [best_match |-> None, best_score |-> Infinity, returned |-> None])
    IN  IF st.returned # None THEN st.returned
        ELSE IF ~st.best_score.inf /\ 10 * st.best_score.val <= 3 * Len(name)
        THEN st.best_match
        ELSE None

-----------------------------------------------------------------------------
(* Inputs of the calculator *)

Absent == [kind |-> "absent", val |-> 0]
AbsentBlock == [absent |-> TRUE]

ForecastKeys ==
    {"daily_incoming_pallets", "daily_shipping_pallets", "daily_order_qty",
     "cases_to_pick", "staged_pallets"}

\* Volumes chosen around the rounding ties and the caps of each rule
IncomingValues == {0, 40, 48, 200, 1800}
ShippingValues == {0, 10, 240}
OrderQtyValues == {0, 120, 8640}
CasesToPickValues == {0, 50, 900}
StagedValues == {0, 5, 240}

Malformed == {NoneVal, StrVal}

FieldValues(key) ==
    {Absent} \cup Malformed \cup
    {Num(n) : n \in
        IF key = "daily_incoming_pallets" THEN IncomingValues
        ELSE IF key = "daily_shipping_pallets" THEN ShippingValues
        ELSE IF key = "daily_order_qty" THEN OrderQtyValues
        ELSE IF key = "cases_to_pick" THEN CasesToPickValues
        ELSE StagedValues}

Forecasts ==
    {DictOf(f, Absent) :
        f \in {g \in [ForecastKeys -> UNION {FieldValues(k) : k \in ForecastKeys}] :
                  \A k \in ForecastKeys : g[k] \in FieldValues(k)}}

\* a block of the metrics map: missing, as configured, or with every metric
\* missing (so that each .get default applies)
MetricsMaps ==
    {DictOf(m, AbsentBlock) :
        m \in {g \in [{"inbound", "picking", "load"} ->
                        {AbsentBlock, EmptyDict, DEFAULT_METRICS.inbound,
                         DEFAULT_METRICS.picking, DEFAULT_METRICS.load}] :
                  \A op \in DOMAIN g :
                      g[op] \in {AbsentBlock, EmptyDict, DEFAULT_METRICS[op]}}}

-----------------------------------------------------------------------------
(* Inputs of the allocator *)

MaxEmployees == 3

\* listings of the employee collection: ids are unique, here the positions
EmployeeListings ==
    UNION {{[i \in 1..n |-> [id |-> i, metadata |-> m[i]]] :
               m \in [1..n -> EmployeeProfiles]} : n \in 0..MaxEmployees}

NotCalled == [called |-> FALSE]

MaxCount == 2

\* requirements of the allocator: two role keys that share the base role
\* forklift_driver, and the receiver key between them
NestedRequirements ==
    {[inbound |-> [forklift_driver |-> a, receiver |-> b],
      picking |-> [forklift_driver |-> c]] :
        a \in 0..MaxCount, b \in 0..MaxCount, c \in 0..MaxCount}

-----------------------------------------------------------------------------
(* The calculator applied to one input *)

CalcIdle ==
    /\ metrics_summaries = get_metrics_summary
    /\ forecast_data = EmptyDict
    /\ final_roles = NotCalled
    /\ earlier_roles = <<>>

AllocIdle ==
    /\ employee_collection = <<>>
    /\ required_in = NotCalled
    /\ matched_out = NotCalled
    /\ assigned_out = NotCalled

RunIdle ==
    /\ pc = "idle"
    /\ locals = EmptyDict
    /\ staffing_collection = <<>>
    /\ outbox = <<>>
    /\ returned = NotCalled

DateIdle ==
    /\ now = NotCalled
    /\ date_range = NotCalled

HistIdle ==
    /\ saves = <<>>
    /\ history_out = NotCalled
    /\ averages_out = NotCalled

MatchIdle ==
    /\ name_in = NotCalled
    /\ list_in = <<>>
    /\ match_out = NotCalled

ReadIdle == listings = <<>>

ApiIdle ==
    /\ scheduling_outcome = NotCalled
    /\ http_response = NotCalled

KeyIdle ==
    /\ role_key_in = <<>>
    /\ base_role_out = NotCalled

InitCalc ==
    /\ ReadIdle
    /\ KeyIdle
    /\ ApiIdle
    /\ metrics_summaries \in MetricsMaps
    /\ forecast_data \in Forecasts
    /\ final_roles = NotCalled
    /\ earlier_roles = <<>>
    /\ AllocIdle
    /\ RunIdle
    /\ DateIdle
    /\ HistIdle
    /\ MatchIdle

Calculate ==
    /\ final_roles = NotCalled
    /\ final_roles' = calculate_required_roles(metrics_summaries, forecast_data)
    /\ metrics_summaries' = metrics_summaries_after(metrics_summaries, forecast_data)
    /\ forecast_data' = forecast_data_after(metrics_summaries, forecast_data)
    /\ UNCHANGED <<earlier_roles, allocVars, runVars, dateVars, histVars, matchVars, readVars, apiVars, keyVars>>

NextCalc == Calculate

SpecCalc == InitCalc /\ [][NextCalc]_vars

-----------------------------------------------------------------------------
(* The allocator applied to one employee listing and one requirement *)

InitAlloc ==
    /\ ReadIdle
    /\ KeyIdle
    /\ ApiIdle
    /\ CalcIdle
    /\ employee_collection \in EmployeeListings
    /\ required_in = NotCalled
    /\ matched_out = NotCalled
    /\ assigned_out = NotCalled
    /\ RunIdle
    /\ DateIdle
    /\ HistIdle
    /\ MatchIdle

\* assign_employees_to_roles(r), with the value its call of
\* retrieve_employees returned
AssignEmployees ==
    /\ required_in = NotCalled
    /\ \E r \in NestedRequirements, db_fails \in BOOLEAN :
        LET matched == retrieve_employees(Flatten(r), employee_collection, db_fails)
        IN  /\ required_in' = r
            /\ matched_out' = matched
            /\ assigned_out' = AssignUpTo(Flatten(r), matched)
            /\ listings' = Append(listings, BulkListing(employee_collection, db_fails))
    /\ UNCHANGED <<calcVars, employee_collection, runVars, dateVars, histVars, matchVars, apiVars, keyVars>>

NextAlloc == AssignEmployees

SpecAlloc == InitAlloc /\ [][NextAlloc]_vars

-----------------------------------------------------------------------------
(* One run of run_scheduler *)

\* raw orders of the status report: one on pallets, one picked by the case,
\* one whose pallet quantity is text
BusyOrders ==
    <<RawOrder(Num(10), Num(70), "PALLET_PICK"), RawOrder(Num(0), Num(50), "CASE_PICK"),
      RawOrder(StrVal, Num(40), "CASE_PICK")>>

StagedOrders == <<RawOrder(Num(5), Num(20), ""), RawOrder(NoneVal, Num(9), "")>>

\* what the three fetches of one day give: the outbound request fails, the
\* picked request answers with no order and no pallet is incoming; a light
\* day; a busy day; a busy day whose incoming summary raises
RunFetches ==
    {[outbound |-> RequestFailed, picked |-> Answered(<<>>), incoming |-> Incoming(0)],
     [outbound |-> Answered(SubSeq(BusyOrders, 1, 1)), picked |-> RequestFailed,
      incoming |-> Incoming(40)],
     [outbound |-> Answered(BusyOrders), picked |-> Answered(StagedOrders),
      incoming |-> Incoming(200)],
     [outbound |-> Answered(BusyOrders), picked |-> Answered(StagedOrders),
      incoming |-> IncomingRaised]}

\* what can happen to the mails of one employee during a run
Deliveries == {"sent", "no_data", "error"}

\* the employees of an assignment
AssignedIds(assigned_employees) ==
    UNION {Range(assigned_employees.val[k]) : k \in DOMAIN assigned_employees.val}

\* the listings of a run: employees that are available, and one on leave
RunProfiles ==
    {m \in EmployeeProfiles :
        m.original_job_title \in {t_forklift_operator, t_level_2_forklift_driver,
                                  t_lumper}}

RunListings ==
    UNION {{[i \in 1..n |-> [id |-> i, metadata |-> m[i]]] :
               m \in [1..n -> RunProfiles]} : n \in 0..MaxEmployees}

\* the dates of the two days, as keys of the history store
tomorrow_str == "tomorrow"
day_after_str == "day_after"


InitRun ==
    /\ ReadIdle
    /\ KeyIdle
    /\ ApiIdle
    /\ CalcIdle
    /\ employee_collection \in RunListings
    /\ required_in = NotCalled
    /\ matched_out = NotCalled
    /\ assigned_out = NotCalled
    /\ pc = "start"
    /\ locals = EmptyDict
    /\ staffing_collection = <<>>
    /\ outbox = <<>>
    /\ returned = NotCalled
    /\ DateIdle
    /\ HistIdle
    /\ MatchIdle

\* lines 116-120: the two calls of get_orders_for_scheduling
GetOrders ==
    /\ pc = "start"
    /\ \E tomorrow \in RunFetches, day_after \in RunFetches :
        locals' = [fetched_tomorrow |-> tomorrow,
                   fetched_day_after |-> day_after,
                   forecast_data_tomorrow |->
                       get_orders_for_scheduling(tomorrow.outbound, tomorrow.picked,
                                                 tomorrow.incoming),
                   forecast_data_day_after |->
                       get_orders_for_scheduling(day_after.outbound, day_after.picked,
                                                 day_after.incoming)]
    /\ pc' = "fetched"
    /\ UNCHANGED <<calcVars, allocVars, dateVars, histVars, matchVars,
                 staffing_collection, outbox, returned, readVars, apiVars, keyVars>>

\* lines 122-123 placed after the saves of lines 130-131
ReturnNoneAfterSaving ==
    /\ pc = "fetched"
    /\ locals.forecast_data_tomorrow = EmptyDict
       \/ locals.forecast_data_day_after = EmptyDict
    /\ staffing_collection' =
        save_daily_staffing(
            save_daily_staffing(staffing_collection, tomorrow_str,
                calculate_required_roles(get_metrics_summary,
                                         locals.forecast_data_tomorrow), FALSE),
            day_after_str,
            calculate_required_roles(get_metrics_summary,
                                     locals.forecast_data_day_after), FALSE)
    /\ returned' = None
    /\ pc' = "done"
    /\ UNCHANGED <<calcVars, allocVars, dateVars, histVars, matchVars,
                 locals, outbox, readVars, apiVars, keyVars>>

\* lines 122-123
ReturnNone ==
    /\ pc = "fetched"
    /\ locals.forecast_data_tomorrow = EmptyDict
       \/ locals.forecast_data_day_after = EmptyDict
    /\ returned' = None
    /\ pc' = "done"
    /\ UNCHANGED <<calcVars, allocVars, dateVars, histVars, matchVars,
                 locals, staffing_collection, outbox, readVars, apiVars, keyVars>>

\* lines 125-127
CalculateRequiredRoles ==
    /\ pc = "fetched"
    /\ locals.forecast_data_tomorrow # EmptyDict
    /\ locals.forecast_data_day_after # EmptyDict
    /\ locals' =
        [required_roles_tomorrow |->
             calculate_required_roles(get_metrics_summary, locals.forecast_data_tomorrow),
         required_roles_day_after |->
             calculate_required_roles(get_metrics_summary, locals.forecast_data_day_after)]
        @@ locals
    /\ pc' = "calculated"
    /\ UNCHANGED <<calcVars, allocVars, dateVars, histVars, matchVars,
                 staffing_collection, outbox, returned, readVars, apiVars, keyVars>>

\* lines 129-131
SaveDailyStaffing ==
    /\ pc = "calculated"
    /\ \E fails1 \in BOOLEAN, fails2 \in BOOLEAN :
        staffing_collection' =
            save_daily_staffing(
                save_daily_staffing(staffing_collection, tomorrow_str,
                                    locals.required_roles_tomorrow, fails1),
                day_after_str, locals.required_roles_day_after, fails2)
    /\ pc' = "saved"
    /\ UNCHANGED <<calcVars, allocVars, dateVars, histVars, matchVars,
                 locals, outbox, returned, readVars, apiVars, keyVars>>

\* lines 144-146 with the employees of the first day kept out of the second
AssignBothDaysExcluding ==
    /\ pc = "saved"
    /\ \E fails1 \in BOOLEAN, fails2 \in BOOLEAN :
        LET tomorrow == assign_employees_to_roles(locals.required_roles_tomorrow,
                                                 employee_collection, fails1)
            remaining == SelectSeq(employee_collection,
                             LAMBDA e : e.id \notin AssignedIds(tomorrow))
        IN  /\ locals' =
                [assigned_employees_tomorrow |-> tomorrow,
                 assigned_employees_day_after |->
                     assign_employees_to_roles(locals.required_roles_day_after,
                                               remaining, fails2)]
                @@ locals
            /\ listings' = listings \o <<BulkListing(employee_collection, fails1),
                                          BulkListing(employee_collection, fails2)>>
    /\ pc' = "assigned"
    /\ UNCHANGED <<calcVars, allocVars, dateVars, histVars, matchVars,
                 staffing_collection, outbox, returned, apiVars, keyVars>>

\* lines 144-146
AssignBothDays ==
    /\ pc = "saved"
    /\ \E fails1 \in BOOLEAN, fails2 \in BOOLEAN :
        /\ locals' =
            [assigned_employees_tomorrow |->
                 assign_employees_to_roles(locals.required_roles_tomorrow,
                                           employee_collection, fails1),
             assigned_employees_day_after |->
                 assign_employees_to_roles(locals.required_roles_day_after,
                                           employee_collection, fails2)]
            @@ locals
        /\ listings' = listings \o <<BulkListing(employee_collection, fails1),
                                      BulkListing(employee_collection, fails2)>>
    /\ pc' = "assigned"
    /\ UNCHANGED <<calcVars, allocVars, dateVars, histVars, matchVars,
                 staffing_collection, outbox, returned, apiVars, keyVars>>

\* lines 148-155
CalculateShortages ==
    /\ pc = "assigned"
    /\ locals' =
        [shortages |-> calculate_shortages(locals.required_roles_tomorrow,
                                            locals.assigned_employees_tomorrow)]
        @@ locals
    /\ pc' = "shortages"
    /\ UNCHANGED <<calcVars, allocVars, dateVars, histVars, matchVars,
                 staffing_collection, outbox, returned, readVars, apiVars, keyVars>>

\* lines 187-210: the three calls of the notification service
SendEmails ==
    /\ pc = "shortages"
    /\ \E configured \in BOOLEAN, mail_fails \in BOOLEAN,
          delivery \in [AssignedIds(locals.assigned_employees_tomorrow)
                          \cup AssignedIds(locals.assigned_employees_day_after)
                        -> Deliveries] :
        outbox' = outbox \o
                <<send_schedule_email(configured, tomorrow_str,
                      locals.assigned_employees_tomorrow, delivery),
                  send_schedule_email(configured, day_after_str,
                      locals.assigned_employees_day_after, delivery),
                  send_combined_forecast_email(configured,
                      locals.required_roles_tomorrow, locals.required_roles_day_after,
                      locals.shortages, mail_fails)>>
    /\ pc' = "sent"
    /\ UNCHANGED <<calcVars, allocVars, dateVars, histVars, matchVars,
                 locals, staffing_collection, returned, readVars, apiVars, keyVars>>

\* lines 157-185 and 212: schedule_data
ReturnSchedule ==
    /\ pc = "sent"
    /\ returned' =
        [tomorrow |->
             [date |-> tomorrow_str,
              required_roles |-> locals.required_roles_tomorrow,
              assigned_employees |-> locals.assigned_employees_tomorrow],
         day_after |->
             [date |-> day_after_str,
              required_roles |-> locals.required_roles_day_after,
              assigned_employees |-> locals.assigned_employees_day_after]]
    /\ pc' = "done"
    /\ UNCHANGED <<calcVars, allocVars, dateVars, histVars, matchVars,
                 locals, staffing_collection, outbox, readVars, apiVars, keyVars>>

NextRun ==
    \/ GetOrders
    \/ ReturnNone
    \/ CalculateRequiredRoles
    \/ SaveDailyStaffing
    \/ AssignBothDays
    \/ CalculateShortages
    \/ SendEmails
    \/ ReturnSchedule

SpecRun == InitRun /\ [][NextRun]_vars

-----------------------------------------------------------------------------
(* The date resolver applied to one current instant *)

MaxDay == 13

\* the instants datetime.now() may return: every weekday of two weeks, at
\* midnight, during the day and in the last microsecond of the day
Instants ==
    {datetime(d, t[1], t[2], t[3], t[4]) :
        d \in 0..MaxDay,
        t \in {<<0, 0, 0, 0>>, <<0, 0, 0, 1>>, <<9, 30, 15, 500000>>,
               <<12, 0, 0, 0>>, <<23, 59, 59, 0>>, <<23, 59, 59, 999999>>}}

InitDates ==
    /\ ReadIdle
    /\ KeyIdle
    /\ ApiIdle
    /\ CalcIdle
    /\ AllocIdle
    /\ RunIdle
    /\ now \in Instants
    /\ date_range = NotCalled
    /\ HistIdle
    /\ MatchIdle

GetTomorrowDateRange ==
    /\ date_range = NotCalled
    /\ date_range' = get_tomorrow_date_range(now)
    /\ UNCHANGED <<calcVars, allocVars, runVars, now, histVars, matchVars, readVars, apiVars, keyVars>>

NextDates == GetTomorrowDateRange

SpecDates == InitDates /\ [][NextDates]_vars

-----------------------------------------------------------------------------
(* The staffing history: saves, then one reading *)

MaxSaves == 3

\* now is some instant of day 8; the dates saved are 6 and 5 days before it,
\* that day itself and the day after it
HistInstants == {datetime(8, 0, 0, 0, 0), datetime(8, 9, 30, 15, 500000)}

SavedDates == {2, 3, 8, 9}

\* requirements as run_scheduler passes them are complete; records written by
\* other callers may lack an operation
SavedRoles ==
    {[inbound |-> [forklift_driver |-> 3]],
     [inbound |-> [forklift_driver |-> 5], picking |-> [forklift_driver |-> 1]]}

WindowDays == {1, 7}

InitHist ==
    /\ ReadIdle
    /\ KeyIdle
    /\ ApiIdle
    /\ CalcIdle
    /\ AllocIdle
    /\ pc = "idle"
    /\ locals = EmptyDict
    /\ staffing_collection = <<>>
    /\ outbox = <<>>
    /\ returned = NotCalled
    /\ now \in HistInstants
    /\ date_range = NotCalled
    /\ HistIdle
    /\ MatchIdle

\* one call save_daily_staffing(date, required_roles)
SaveStaffing ==
    /\ averages_out = NotCalled
    /\ Len(saves) < MaxSaves
    /\ \E date \in SavedDates, required_roles \in SavedRoles, store_fails \in BOOLEAN :
        /\ staffing_collection' =
               save_daily_staffing(staffing_collection, date, required_roles, store_fails)
        /\ saves' = Append(saves, [date |-> date, required_roles |-> required_roles,
                                   ok |-> ~store_fails])
    /\ UNCHANGED <<calcVars, allocVars, pc, locals, outbox, returned, dateVars,
                   history_out, averages_out, matchVars, readVars, apiVars, keyVars>>

\* one call calculate_moving_averages(days), with the value its call of
\* get_staffing_history(days) returned
CalculateMovingAverages ==
    /\ averages_out = NotCalled
    /\ \E days \in WindowDays, store_fails \in BOOLEAN :
        /\ history_out' =
               [days |-> days, ok |-> ~store_fails,
                records |-> get_staffing_history(staffing_collection, now, days,
                                                 store_fails)]
        /\ averages_out' =
               calculate_moving_averages(staffing_collection, now, days, store_fails)
    /\ UNCHANGED <<calcVars, allocVars, runVars, dateVars, saves, matchVars, readVars, apiVars, keyVars>>

NextHist == SaveStaffing \/ CalculateMovingAverages

SpecHist == InitHist /\ [][NextHist]_vars

-----------------------------------------------------------------------------
(* The name matcher applied to one query and one candidate list *)

MaxCandidates == 3

\* the employee store: e1 and e2 with names, anni without the field, e4 with
\* a text that is no JSON, e5 with an empty list, e6 and e7 with long names
MatchListing ==
    <<[id |-> <<"e", "1">>,
       metadata |-> [name_variations |->
                        JsonList(<<<<"A", "n", "a">>, <<"A", "N", "N", "A">>>>)]],
      [id |-> <<"e", "2">>,
       metadata |-> [name_variations |-> JsonList(<<<<"A", "n", "n", "e">>>>)]],
      [id |-> <<"a", "n", "n", "i">>, metadata |-> [name |-> "Anni"]],
      [id |-> <<"e", "4">>, metadata |-> [name_variations |-> InvalidJson]],
      [id |-> <<"e", "5">>, metadata |-> [name_variations |-> JsonList(<<>>)]],
      [id |-> <<"e", "6">>,
       metadata |-> [name_variations |->
                        JsonList(<<<<"c", "h", "r", "i", "s", "t">>>>)]],
      [id |-> <<"e", "7">>,
       metadata |-> [name_variations |->
                        JsonList(<<<<"C", "h", "r", "i", "s", "t", "o">>>>)]]>>

\* the ids a caller may list: those of the store and one the store lacks
CandidateIds == {MatchListing[i].id : i \in DOMAIN MatchListing} \cup {<<"z", "z">>}

EmployeeLists == UNION {[1..n -> CandidateIds] : n \in 0..MaxCandidates}

\* Anna, anne, E5: equal to something stored but for the case; Anny: one edit
\* from three candidates; christophe: 3 edits and 4 edits, around 0.3 * 10;
\* bob: far from all
Names ==
    {<<"A", "n", "n", "a">>, <<"a", "n", "n", "e">>, <<"E", "5">>,
     <<"A", "n", "n", "y">>,
     <<"c", "h", "r", "i", "s", "t", "o", "p", "h", "e">>, <<"b", "o", "b">>}

InitMatch ==
    /\ ReadIdle
    /\ KeyIdle
    /\ ApiIdle
    /\ CalcIdle
    /\ employee_collection = MatchListing
    /\ required_in = NotCalled
    /\ matched_out = NotCalled
    /\ assigned_out = NotCalled
    /\ RunIdle
    /\ DateIdle
    /\ HistIdle
    /\ name_in \in Names
    /\ list_in \in EmployeeLists
    /\ match_out = NotCalled

FindBestMatch ==
    /\ match_out = NotCalled
    /\ match_out' = find_best_match(name_in, list_in, employee_collection)
    /\ UNCHANGED <<calcVars, allocVars, runVars, dateVars, histVars, name_in, list_in, readVars, apiVars, keyVars>>

NextMatch == FindBestMatch

SpecMatch == InitMatch /\ [][NextMatch]_vars

-----------------------------------------------------------------------------
(* The matcher applied to one employee whose job title is a listed synonym *)

UpperChar(c) ==
    IF \E i \in DOMAIN LowerCase : LowerCase[i] = c
    THEN UpperCase[CHOOSE i \in DOMAIN LowerCase : LowerCase[i] = c]
    ELSE c

\* str.upper() and str.capitalize()
upper(str) == [i \in 1..Len(str) |-> UpperChar(str[i])]
capitalize(str) == [i \in 1..Len(str) |-> IF i = 1 THEN UpperChar(str[i]) ELSE LowerChar(str[i])]

\* every synonym of the role table, as listed and in three other casings
SynonymTitles ==
    UNION {UNION {{ROLE_MAPPINGS[b][i], lower(ROLE_MAPPINGS[b][i]),
                   upper(ROLE_MAPPINGS[b][i]), capitalize(ROLE_MAPPINGS[b][i])} :
                     i \in DOMAIN ROLE_MAPPINGS[b]} : b \in DOMAIN ROLE_MAPPINGS}

\* the base roles a title is a synonym of, whatever the letter case
SynonymOf(title) ==
    {b \in DOMAIN ROLE_MAPPINGS :
        \E i \in DOMAIN ROLE_MAPPINGS[b] : lower(ROLE_MAPPINGS[b][i]) = lower(title)}

InitSynonym ==
    /\ ReadIdle
    /\ KeyIdle
    /\ ApiIdle
    /\ CalcIdle
    /\ employee_collection \in
           {<<[id |-> 1, metadata |-> [original_job_title |-> t]]>> : t \in SynonymTitles}
    /\ required_in = NotCalled
    /\ matched_out = NotCalled
    /\ assigned_out = NotCalled
    /\ RunIdle
    /\ DateIdle
    /\ HistIdle
    /\ MatchIdle

\* retrieve_employees({role_key: 1}) for a role key of a base role the
\* employee's title is a synonym of
RetrieveEmployees ==
    /\ required_in = NotCalled
    /\ \E b \in SynonymOf(employee_collection[1].metadata.original_job_title),
          operation \in {s_inbound, s_picking} :
        LET role_key == operation \o <<"_">> \o b
            required == OrderedDict(<<role_key>>, (role_key :> 1))
        IN  /\ required_in' = required
            /\ matched_out' = retrieve_employees(required, employee_collection, FALSE)
            /\ listings' = Append(listings, BulkListing(employee_collection, FALSE))
    /\ UNCHANGED <<calcVars, employee_collection, assigned_out, runVars, dateVars,
                   histVars, matchVars, apiVars, keyVars>>

NextSynonym == RetrieveEmployees

SpecSynonym == InitSynonym /\ [][NextSynonym]_vars

-----------------------------------------------------------------------------
(* One request to GET /api/schedule *)

\* the forecasts of the days on which get_orders_for_scheduling did not raise
ApiForecasts ==
    {get_orders_for_scheduling(f.outbound, f.picked, f.incoming) :
        f \in {g \in RunFetches : ~g.incoming.raised}}

\* the schedule of one day, as run_scheduler puts it into schedule_data
DaySchedule(date, forecast, listing) ==
    LET required_roles == calculate_required_roles(get_metrics_summary, forecast)
    IN  [date |-> date, required_roles |-> required_roles,
         assigned_employees |-> assign_employees_to_roles(required_roles, listing, FALSE)]

\* what run_scheduler can give the handler: None, a schedule, an exception
ApiOutcomes ==
    {Returned(None), Raised("RuntimeError: store closed"), Raised("KeyError: 'inbound'")}
    \cup {Returned([tomorrow |-> DaySchedule(tomorrow_str, f1, l),
                    day_after |-> DaySchedule(day_after_str, f2, l)]) :
             f1 \in ApiForecasts, f2 \in ApiForecasts, l \in RunListings}

InitApi ==
    /\ CalcIdle
    /\ AllocIdle
    /\ RunIdle
    /\ DateIdle
    /\ HistIdle
    /\ MatchIdle
    /\ ReadIdle
    /\ KeyIdle
    /\ scheduling_outcome \in ApiOutcomes
    /\ http_response = NotCalled

GetSchedule ==
    /\ http_response = NotCalled
    /\ http_response' = get_schedule(scheduling_outcome)
    /\ UNCHANGED <<calcVars, allocVars, runVars, dateVars, histVars, matchVars, readVars,
                   scheduling_outcome, keyVars>>

NextApi == GetSchedule

SpecApi == InitApi /\ [][NextApi]_vars

-----------------------------------------------------------------------------
(* The calculator called again on the same arguments *)

MaxCalls == 2

\* forecasts whose fields are missing, text, or the largest volume
RepeatForecasts ==
    {fc \in Forecasts :
        \A k \in DOMAIN fc :
            fc[k] \in {StrVal, Num(1800), Num(240), Num(8640), Num(900)}}

InitRepeat ==
    /\ ReadIdle
    /\ KeyIdle
    /\ ApiIdle
    /\ metrics_summaries \in MetricsMaps
    /\ forecast_data \in RepeatForecasts
    /\ final_roles = NotCalled
    /\ earlier_roles = <<>>
    /\ AllocIdle
    /\ RunIdle
    /\ DateIdle
    /\ HistIdle
    /\ MatchIdle

\* one more call with the metrics map and the forecast the caller still holds
CalculateAgain ==
    /\ final_roles # NotCalled
    /\ Len(earlier_roles) + 1 < MaxCalls
    /\ earlier_roles' = Append(earlier_roles, final_roles)
    /\ final_roles' = calculate_required_roles(metrics_summaries, forecast_data)
    /\ metrics_summaries' = metrics_summaries_after(metrics_summaries, forecast_data)
    /\ forecast_data' = forecast_data_after(metrics_summaries, forecast_data)
    /\ UNCHANGED <<allocVars, runVars, dateVars, histVars, matchVars, readVars, apiVars, keyVars>>

NextRepeat == Calculate \/ CalculateAgain

SpecRepeat == InitRepeat /\ [][NextRepeat]_vars

-----------------------------------------------------------------------------
(* The base role of one role key *)

\* first segments: the operations, one-letter and empty prefixes
KeyPrefixes ==
    {s_inbound, s_picking, s_loading, s_replenishment, <<"a">>, <<>>,
     <<"d", "o", "c", "k">>, <<"I", "n">>}

\* what follows the first underscore: the base roles, and texts with none,
\* one or several underscores of their own
KeyRoles ==
    {s_forklift_driver, s_receiver, s_lumper, s_staff, s_picker, <<>>,
     <<"l", "e", "a", "d", "_", "h", "a", "n", "d", "_", "2">>, <<"_", "x">>}

RoleKeys ==
    {p \o <<"_">> \o r : p \in KeyPrefixes, r \in KeyRoles}
    \cup {r \in KeyRoles : \A i \in DOMAIN r : r[i] # "_"}

InitBaseRole ==
    /\ CalcIdle
    /\ AllocIdle
    /\ RunIdle
    /\ DateIdle
    /\ HistIdle
    /\ MatchIdle
    /\ ReadIdle
    /\ ApiIdle
    /\ role_key_in \in RoleKeys
    /\ base_role_out = NotCalled

\* database.py line 59 (and line 70) on one role key
DeriveBaseRole ==
    /\ base_role_out = NotCalled
    /\ base_role_out' = [called |-> TRUE, base_role |-> BaseRole(role_key_in)]
    /\ UNCHANGED <<calcVars, allocVars, runVars, dateVars, histVars, matchVars, readVars,
                   apiVars, role_key_in>>

NextBaseRole == DeriveBaseRole

SpecBaseRole == InitBaseRole /\ [][NextBaseRole]_vars

-----------------------------------------------------------------------------
(* The history of a run: dates resolved, requirements saved, averages read *)

\* the run starts on a Tuesday (8), a Friday (11) or a Sunday (13), in the
\* morning or in the last second of the day; the clock is read again when the
\* forecast email is built, at that instant or later, up to the next day
ClockDays == {8, 11, 13}

ClockInstants ==
    UNION {{datetime(d, 9, 30, 15, 500000), datetime(d, 23, 59, 59, 900000),
            datetime(d + 1, 0, 0, 0, 0), datetime(d + 1, 9, 30, 15, 500000)} :
           d \in ClockDays}

\* what earlier runs have left in the store: nothing, or one record of a day
\* before the run or of a day the run is about to save again
EarlierDates == {7, 9, 12, 14}

EarlierStores ==
    {<<>>} \cup {save_daily_staffing(<<>>, date, required_roles, FALSE) :
                    date \in EarlierDates, required_roles \in SavedRoles}

\* strftime('%Y-%m-%d') of a datetime: the text that names its day
strftime(dt) == dt.day

InitMail ==
    /\ ReadIdle
    /\ KeyIdle
    /\ ApiIdle
    /\ CalcIdle
    /\ AllocIdle
    /\ pc = "start"
    /\ locals = EmptyDict
    /\ staffing_collection \in EarlierStores
    /\ outbox = <<>>
    /\ returned = NotCalled
    /\ now \in {t \in ClockInstants : t.day \in ClockDays}
    /\ date_range = NotCalled
    /\ HistIdle
    /\ MatchIdle

\* the clock moves on between two steps of the run
ClockAdvances ==
    /\ pc \in {"start", "resolved", "saved"}
    /\ \E later \in ClockInstants :
        /\ Before(now, later)
        /\ now' = later
    /\ UNCHANGED <<calcVars, allocVars, runVars, date_range, histVars, matchVars,
                   readVars, apiVars, keyVars>>

\* schedule_service.py line 107
ResolveDates ==
    /\ pc = "start"
    /\ date_range' = get_tomorrow_date_range(now)
    /\ pc' = "resolved"
    /\ UNCHANGED <<calcVars, allocVars, locals, staffing_collection, outbox,
                   returned, now, histVars, matchVars, readVars, apiVars, keyVars>>

\* schedule_service.py lines 109, 111, 130, 131
SaveForecasts ==
    /\ pc = "resolved"
    /\ \E roles_tomorrow \in SavedRoles, roles_day_after \in SavedRoles,
          fails1 \in BOOLEAN, fails2 \in BOOLEAN :
        LET tomorrow_date == strftime(date_range.tomorrow_end)
            day_after_date == strftime(date_range.day_after_end)
        IN  /\ staffing_collection' =
                save_daily_staffing(
                    save_daily_staffing(staffing_collection, tomorrow_date,
                                        roles_tomorrow, fails1),
                    day_after_date, roles_day_after, fails2)
            /\ saves' = saves \o
                <<[date |-> tomorrow_date, required_roles |-> roles_tomorrow,
                   ok |-> ~fails1],
                  [date |-> day_after_date, required_roles |-> roles_day_after,
                   ok |-> ~fails2]>>
    /\ pc' = "saved"
    /\ UNCHANGED <<calcVars, allocVars, locals, outbox, returned, dateVars,
                   history_out, averages_out, matchVars, readVars, apiVars, keyVars>>

\* notification_service.py line 511: calculate_moving_averages(), days = 7
BuildForecastEmail ==
    /\ pc = "saved"
    /\ \E store_fails \in BOOLEAN :
        /\ history_out' =
               [days |-> 7, ok |-> ~store_fails,
                records |-> get_staffing_history(staffing_collection, now, 7,
                                                 store_fails)]
        /\ averages_out' =
               calculate_moving_averages(staffing_collection, now, 7, store_fails)
    /\ pc' = "mailed"
    /\ UNCHANGED <<calcVars, allocVars, locals, staffing_collection, outbox,
                   returned, dateVars, saves, matchVars, readVars, apiVars, keyVars>>

NextMail == ClockAdvances \/ ResolveDates \/ SaveForecasts \/ BuildForecastEmail

SpecMail == InitMail /\ [][NextMail]_vars

-----------------------------------------------------------------------------
(* Vocabulary of the properties *)

Least(a, b) == IF a < b THEN a ELSE b
Greatest(a, b) == IF a > b THEN a ELSE b

\* k is the integer nearest to n/d, the even one of the two when n/d lies
\* exactly between two integers
IsNearestEven(k, n, d) ==
    /\ 2 * n - d <= 2 * k * d
    /\ 2 * k * d <= 2 * n + d
    /\ (2 * k * d = 2 * n + d \/ 2 * k * d = 2 * n - d) => k % 2 = 0

NearestEven(n, d) ==
    CHOOSE k \in (n \div d)..(n \div d + 1) : IsNearestEven(k, n, d)

\* every field of the forecast that is present is a number
WellFormed(fc) == \A k \in DOMAIN fc : IsNum(fc[k])

\* a forecast field, a missing one counted as 0
Volume(fc, key) == IF key \in DOMAIN fc THEN fc[key].val ELSE 0

Called == final_roles # NotCalled

\* the metrics map has the block op with every metric of names in it
Configured(ms, op, names) == op \in DOMAIN ms /\ names \subseteq DOMAIN ms[op]

Operations == {"inbound", "picking", "loading", "replenishment"}

IsRoleMap(r) ==
    /\ DOMAIN r = Operations
    /\ DOMAIN r.inbound = {"forklift_driver", "receiver", "lumper"}
    /\ DOMAIN r.picking = {"forklift_driver"}
    /\ DOMAIN r.loading = {"forklift_driver"}
    /\ DOMAIN r.replenishment = {"staff"}
    /\ \A op \in Operations : \A role \in DOMAIN r[op] : r[op][role] \in Nat

MinutesPerPerson == 360

-----------------------------------------------------------------------------
(* Employee matcher / allocator *)

Retrieved == matched_out # NotCalled

\* the positions of a result: a role key and an index into its list
Places(result) ==
    UNION {{<<k, i>> : i \in DOMAIN result.val[k]} : k \in DOMAIN result.val}

MetadataOf(emp_id) ==
    employee_collection[CHOOSE i \in DOMAIN employee_collection :
                            employee_collection[i].id = emp_id].metadata

key_inbound_forklift_driver == RoleKey("inbound", "forklift_driver")
key_inbound_receiver == RoleKey("inbound", "receiver")
key_picking_forklift_driver == RoleKey("picking", "forklift_driver")

\* C1: over all role_key lists of the result of retrieve_employees taken
\* together, every employee id occurs at most once: not under two role keys,
\* not twice in one list.
C1_NoEmployeeTwice ==
    Retrieved =>
        \A p \in Places(matched_out), q \in Places(matched_out) :
            p # q => matched_out.val[p[1]][p[2]] # matched_out.val[q[1]][q[2]]

\* employee 2 matches receiver and forklift_driver, and the forklift pool is
\* listed once per forklift role key: inbound takes 1 and 2, nothing is left
C1_Witness ==
    /\ Retrieved
    /\ Len(employee_collection) >= 2
    /\ employee_collection[2].metadata.original_job_title = t_receiving_forklift_operator
    /\ required_in.inbound.receiver >= 1
    /\ required_in.picking.forklift_driver >= 1
    /\ DOMAIN matched_out.val # {}
    /\ matched_out.val[key_inbound_forklift_driver] = <<1, 2>>
    /\ matched_out.val[key_inbound_receiver] = <<>>
    /\ matched_out.val[key_picking_forklift_driver] = <<>>

\* C2: for every role_key, the list retrieve_employees returns for it and the
\* list assign_employees_to_roles returns for it are no longer than the
\* required count of that role_key; a required count of 0 gives empty lists.
C2_WithinQuota ==
    Retrieved =>
        \A op \in DOMAIN required_in : \A role \in DOMAIN required_in[op] :
            LET k == RoleKey(op, role)
                count == required_in[op][role]
            IN  /\ k \in DOMAIN matched_out.val => Len(matched_out.val[k]) <= count
                /\ k \in DOMAIN assigned_out.val
                /\ Len(assigned_out.val[k]) <= count

\* three available forklift employees and a quota of one
C2_Witness ==
    /\ Retrieved
    /\ Len(employee_collection) = 3
    /\ \A i \in 1..3 :
           employee_collection[i].metadata.original_job_title = t_forklift_operator
    /\ required_in.inbound.forklift_driver = 1
    /\ required_in.picking.forklift_driver = 0
    /\ DOMAIN matched_out.val # {}
    /\ matched_out.val[key_inbound_forklift_driver] = <<1>>
    /\ assigned_out.val[key_inbound_forklift_driver] = <<1>>
    /\ assigned_out.val[key_picking_forklift_driver] = <<>>

\* C3: an employee placed under a role_key is not inactive, not on leave, and
\* has shift preferences that are empty or contain "day" (a field the record
\* does not carry counts as active, not on leave, no preference).
C3_OnlyAvailableAssigned ==
    Retrieved =>
        \A p \in Places(matched_out) :
            LET m == MetadataOf(matched_out.val[p[1]][p[2]])
            IN  /\ "active" \in DOMAIN m => m.active = TRUE
                /\ "on_leave" \in DOMAIN m => m.on_leave = FALSE
                /\ "shift_preferences" \in DOMAIN m =>
                       \/ m.shift_preferences = <<>>
                       \/ \E i \in DOMAIN m.shift_preferences :
                              m.shift_preferences[i] = "day"

\* the forklift driver on leave, the inactive lumper and the night-shift
\* clerk are passed over; the quota goes to nobody
C3_Witness ==
    /\ Retrieved
    /\ Len(employee_collection) = 3
    /\ employee_collection[1].metadata.original_job_title = t_level_2_forklift_driver
    /\ employee_collection[2].metadata.original_job_title = t_receiving_clerk
    /\ employee_collection[3].metadata.original_job_title = t_receiving_forklift_operator
    /\ required_in.inbound.forklift_driver = 1
    /\ required_in.inbound.receiver = 1
    /\ DOMAIN matched_out.val # {}
    /\ matched_out.val[key_inbound_forklift_driver] = <<3>>
    /\ matched_out.val[key_inbound_receiver] = <<>>

-----------------------------------------------------------------------------
(* Orchestrator *)

\* the number of employees the first day's assignment holds for a role key
AssignedTomorrow(k) == Len(Get(locals.assigned_employees_tomorrow.val, k, <<>>))

\* C4: the shortage map passed to the combined forecast email holds, for each
\* first-day role_key with fewer assigned employees than required, the value
\* required - assigned, and holds no other entry.
C4_ShortagesOfFirstDay ==
    \A n \in DOMAIN outbox :
        outbox[n].call = "send_combined_forecast_email" =>
            LET required == locals.required_roles_tomorrow
                shortages == outbox[n].shortages
            IN  /\ \A op \in DOMAIN required : \A role \in DOMAIN required[op] :
                       LET k == RoleKey(op, role)
                           missing == required[op][role] - AssignedTomorrow(k)
                       IN  IF missing > 0
                           THEN k \in DOMAIN shortages /\ shortages[k] = missing
                           ELSE k \notin DOMAIN shortages
                /\ DOMAIN shortages \subseteq
                       {RoleKey(op, role) : op \in DOMAIN required,
                                            role \in {"forklift_driver", "receiver",
                                                      "lumper", "staff"}}

\* the first day needs 3 inbound forklift drivers and nobody is assigned
C4_Witness ==
    /\ pc = "sent"
    /\ locals.required_roles_tomorrow.inbound.forklift_driver = 3
    /\ AssignedTomorrow(key_inbound_forklift_driver) = 0
    /\ \E n \in DOMAIN outbox : outbox[n].call = "send_combined_forecast_email"

-----------------------------------------------------------------------------
(* Requirement calculator *)

\* C5: whatever the metrics map and the forecast, the returned map has exactly
\* the operations inbound, picking, loading, replenishment with their fixed
\* leaves, and every leaf is an integer >= 0 (computed map and fallback map).
C5_RoleMapShape == Called => IsRoleMap(final_roles)

C5_Witness ==
    /\ Called
    /\ "load" \notin DOMAIN metrics_summaries
    /\ final_roles.inbound.lumper = 2
    /\ final_roles.loading.forklift_driver = 0

\* C6: with the inbound metrics configured and a well-formed forecast,
\* forklift_driver = min(5, round(p * offload / 360)) + min(3, round(p * putaway / 360)),
\* receiver = max(1, round(p * scan / 360)), lumper = min(5, round(p * lumper / 360))
\* with ties rounded to even when p = incoming_pallets > 0, and all three are 0
\* when p = 0; so forklift_driver <= 8, lumper <= 5, 40 pallets give 0 forklift
\* drivers and 200 pallets an offload part of 2 under the default metrics.
C6_InboundRule ==
    (/\ Called
     /\ WellFormed(forecast_data)
     /\ Configured(metrics_summaries, "inbound",
                   {"avg_offload_time", "avg_scan_time", "avg_putaway_time",
                    "avg_lumper_time"}))
    => LET p == Volume(forecast_data, "daily_incoming_pallets")
           m == metrics_summaries["inbound"]
           r == final_roles.inbound
           per == 100 * MinutesPerPerson
       IN  /\ p > 0 =>
                /\ r.forklift_driver =
                       Least(5, NearestEven(p * m.avg_offload_time, per))
                       + Least(3, NearestEven(p * m.avg_putaway_time, per))
                /\ r.receiver = Greatest(1, NearestEven(p * m.avg_scan_time, per))
                /\ r.lumper = Least(5, NearestEven(p * m.avg_lumper_time, per))
           /\ p = 0 => r.forklift_driver = 0 /\ r.receiver = 0 /\ r.lumper = 0
           /\ r.forklift_driver <= 8
           /\ r.lumper <= 5
           /\ (m = DEFAULT_METRICS.inbound /\ p = 40) => r.forklift_driver = 0
           /\ (m = DEFAULT_METRICS.inbound /\ p = 200) =>
                  r.forklift_driver = 2 + NearestEven(200 * 250, per)

\* 48 pallets at 3.75 minutes are exactly half a shift: the tie goes to 0
C6_Witness ==
    /\ Called
    /\ WellFormed(forecast_data)
    /\ "inbound" \in DOMAIN metrics_summaries
    /\ metrics_summaries["inbound"] = DEFAULT_METRICS.inbound
    /\ Volume(forecast_data, "daily_incoming_pallets") = 48
    /\ final_roles.inbound = [forklift_driver |-> 0, receiver |-> 1, lumper |-> 0]

\* C7 as claimed: with cases_to_pick > 0 picking forklift_driver is
\* max(1, round(cases_to_pick * pick / 360)) + max(1, round(adjusted * wrap / 360))
\* where adjusted = shipping_pallets + total_order_qty / 24, and 0 otherwise.
C7_PickingRuleAsClaimed ==
    (/\ Called
     /\ WellFormed(forecast_data)
     /\ Configured(metrics_summaries, "picking", {"avg_pick_time", "avg_wrap_time"}))
    => LET c == Volume(forecast_data, "cases_to_pick")
           adjusted_x24 == 24 * Volume(forecast_data, "daily_shipping_pallets")
                           + Volume(forecast_data, "daily_order_qty")
           m == metrics_summaries["picking"]
           per == 100 * MinutesPerPerson
       IN  final_roles.picking.forklift_driver =
               IF c > 0
               THEN Greatest(1, NearestEven(c * m.avg_pick_time, per))
                    + Greatest(1, NearestEven(adjusted_x24 * m.avg_wrap_time, 24 * per))
               ELSE 0

\* C7 amended: the wrap part is computed from total_order_qty / 24 alone; the
\* shipping pallets do not enter it.
C7_PickingRule ==
    (/\ Called
     /\ WellFormed(forecast_data)
     /\ Configured(metrics_summaries, "picking", {"avg_pick_time", "avg_wrap_time"}))
    => LET c == Volume(forecast_data, "cases_to_pick")
           cases_x24 == Volume(forecast_data, "daily_order_qty")
           m == metrics_summaries["picking"]
           per == 100 * MinutesPerPerson
       IN  final_roles.picking.forklift_driver =
               IF c > 0
               THEN Greatest(1, NearestEven(c * m.avg_pick_time, per))
                    + Greatest(1, NearestEven(cases_x24 * m.avg_wrap_time, 24 * per))
               ELSE 0

\* 240 shipping pallets would need 2 wrappers, yet only the 120 ordered cases count
C7_Witness ==
    /\ Called
    /\ WellFormed(forecast_data)
    /\ Configured(metrics_summaries, "picking", {"avg_pick_time", "avg_wrap_time"})
    /\ Volume(forecast_data, "cases_to_pick") = 900
    /\ Volume(forecast_data, "daily_shipping_pallets") = 240
    /\ Volume(forecast_data, "daily_order_qty") = 120
    /\ final_roles.picking.forklift_driver = 3

\* C8: with the load metric configured, loading forklift_driver is
\* (max(1, round(staged * load / 360)) if staged > 0, else 0)
\* + (max(1, round(adjusted * load / 360)) if adjusted > 0, else 0),
\* adjusted = shipping_pallets + total_order_qty / 24: 0 when both volumes are
\* 0, at least 2 when both are positive.
C8_LoadingRule ==
    (/\ Called
     /\ WellFormed(forecast_data)
     /\ Configured(metrics_summaries, "load", {"avg_load_time_per_pallet"}))
    => LET staged == Volume(forecast_data, "staged_pallets")
           adjusted_x24 == 24 * Volume(forecast_data, "daily_shipping_pallets")
                           + Volume(forecast_data, "daily_order_qty")
           load == metrics_summaries["load"].avg_load_time_per_pallet
           per == 100 * MinutesPerPerson
           stagedPart == IF staged > 0
                         THEN Greatest(1, NearestEven(staged * load, per))
                         ELSE 0
           shippingPart == IF adjusted_x24 > 0
                           THEN Greatest(1, NearestEven(adjusted_x24 * load, 24 * per))
                           ELSE 0
           n == final_roles.loading.forklift_driver
       IN  /\ n = stagedPart + shippingPart
           /\ (staged = 0 /\ adjusted_x24 = 0) => n = 0
           /\ (staged > 0 /\ adjusted_x24 > 0) => n >= 2

\* both components fire: 240 staged pallets (2.5 shifts, tie to 2) and
\* 10 shipping pallets plus 120 cases (1 shift at least)
C8_Witness ==
    /\ Called
    /\ WellFormed(forecast_data)
    /\ Configured(metrics_summaries, "load", {"avg_load_time_per_pallet"})
    /\ Volume(forecast_data, "staged_pallets") = 240
    /\ Volume(forecast_data, "daily_shipping_pallets") = 10
    /\ Volume(forecast_data, "daily_order_qty") = 120
    /\ final_roles.loading.forklift_driver = 3

\* C9: replenishment staff = max(1, round(total_headcount / 10)) where
\* total_headcount adds the five other leaves of the same result; it is at
\* least 1 for every forecast, the all-zero one included.
C9_ReplenishmentRule ==
    Called =>
        LET r == final_roles
            total_headcount ==
                r.inbound.forklift_driver + r.inbound.lumper + r.inbound.receiver
                + r.picking.forklift_driver + r.loading.forklift_driver
        IN  /\ r.replenishment.staff = Greatest(1, NearestEven(total_headcount, 10))
            /\ r.replenishment.staff >= 1

\* 25 people: 2.5 rounds to the even 2
C9_Witness ==
    /\ Called
    /\ final_roles.inbound.forklift_driver + final_roles.inbound.lumper
       + final_roles.inbound.receiver + final_roles.picking.forklift_driver
       + final_roles.loading.forklift_driver = 25
    /\ final_roles.replenishment.staff = 2

\* C10: the call always returns a role map; it returns the fallback map only
\* for a forecast with a malformed field (the only source of an exception);
\* a forecast whose fields are all zero or all missing gives the computed
\* map, every leaf 0 but replenishment staff 1.
C10_FallbackOnlyOnFailure ==
    Called =>
        /\ IsRoleMap(final_roles)
        /\ final_roles = FallbackRoles => ~WellFormed(forecast_data)
        /\ (\A k \in DOMAIN forecast_data : forecast_data[k] = Num(0)) =>
               final_roles = [ZeroRoles EXCEPT !.replenishment.staff = 1]

C10_Witness ==
    /\ Called
    /\ forecast_data = EmptyDict
    /\ metrics_summaries = DEFAULT_METRICS
    /\ final_roles # FallbackRoles

-----------------------------------------------------------------------------
(* Date resolver *)

Resolved == date_range # NotCalled

IsBusinessDay(day) == day % 7 \in 0..4

\* the first Monday-to-Friday day strictly after day
NextBusinessDay(day) ==
    CHOOSE d \in (day + 1)..(day + 3) :
        IsBusinessDay(d) /\ \A e \in (day + 1)..(d - 1) : ~IsBusinessDay(e)

\* C11: whatever weekday today is, tomorrow is the first Monday-to-Friday day
\* strictly after today and day_after the first one strictly after tomorrow;
\* a Friday gives Monday and Tuesday, a Thursday gives Friday and Monday.
C11_NextBusinessDays ==
    Resolved =>
        LET tomorrow == date_range.tomorrow_start.day
            day_after == date_range.day_after_start.day
        IN  /\ tomorrow = NextBusinessDay(now.day)
            /\ day_after = NextBusinessDay(tomorrow)
            /\ date_range.tomorrow_end.day = tomorrow
            /\ date_range.day_after_end.day = day_after
            /\ now.day % 7 = 4 =>    \* a Friday
                   tomorrow = now.day + 3 /\ day_after = now.day + 4
            /\ now.day % 7 = 3 =>    \* a Thursday
                   tomorrow = now.day + 1 /\ day_after = now.day + 4

\* a Friday evening: both candidates fall on the weekend and land on Monday
C11_Witness ==
    /\ Resolved
    /\ now.day = 4 /\ now.hour = 23
    /\ date_range.tomorrow_start.day = 7
    /\ date_range.day_after_start.day = 8

\* C12: day_after is strictly later than tomorrow, neither day is a Saturday
\* or a Sunday, and the window of each day runs from 00:00:00 to 23:59:59 of
\* that one calendar day.
C12_OrderedWeekdayWindows ==
    Resolved =>
        LET r == date_range
            StartOfDay(dt) ==
                dt.hour = 0 /\ dt.minute = 0 /\ dt.second = 0 /\ dt.microsecond = 0
            EndOfDay(dt) == dt.hour = 23 /\ dt.minute = 59 /\ dt.second = 59
        IN  /\ Before(r.tomorrow_end, r.day_after_start)
            /\ weekday(r.tomorrow_start) \notin {5, 6}
            /\ weekday(r.day_after_start) \notin {5, 6}
            /\ StartOfDay(r.tomorrow_start) /\ EndOfDay(r.tomorrow_end)
            /\ StartOfDay(r.day_after_start) /\ EndOfDay(r.day_after_end)
            /\ r.tomorrow_end.day = r.tomorrow_start.day
            /\ r.day_after_end.day = r.day_after_start.day

\* a Saturday, in the last microsecond of the day: both candidates are Monday
\* before line 43 separates them
C12_Witness ==
    /\ Resolved
    /\ now.day % 7 = 5 /\ now.microsecond = 999999
    /\ date_range.tomorrow_start = datetime(now.day + 2, 0, 0, 0, 0)
    /\ date_range.day_after_end = datetime(now.day + 3, 23, 59, 59, 0)

-----------------------------------------------------------------------------
(* Staffing history *)

\* the last successful save of a date among the calls made so far
LastSave(date) ==
    LET at == {i \in DOMAIN saves : saves[i].date = date /\ saves[i].ok}
    IN  IF at = {} THEN None ELSE saves[SetMax(at)]

RecordsOf(date) == {i \in DOMAIN staffing_collection : staffing_collection[i].id = date}

\* the operation_role counts a nested requirement flattens to
Flattened(required_roles) ==
    [k \in {RoleKey(op, role) : op \in DOMAIN required_roles,
                                role \in {"forklift_driver", "receiver", "lumper", "staff"}}
           \cap UNION {{RoleKey(op, role) : role \in DOMAIN required_roles[op]} :
                          op \in DOMAIN required_roles} |->
        LET opr == CHOOSE pair \in {<<op, role>> : op \in DOMAIN required_roles,
                        role \in {"forklift_driver", "receiver", "lumper", "staff"}} :
                     /\ pair[2] \in DOMAIN required_roles[pair[1]]
                     /\ RoleKey(pair[1], pair[2]) = k
        IN  required_roles[opr[1]][opr[2]]]

\* C13: after any sequence of saves there is at most one record per date and
\* it carries the flattened counts of the latest save of that date; a save
\* that repeats the previous one leaves the store as it was, and a save for
\* one date changes no record of another date.
C13_UpsertByDate ==
    /\ [](\A date \in SavedDates :
            /\ Cardinality(RecordsOf(date)) <= 1
            /\ LastSave(date) = None <=> RecordsOf(date) = {}
            /\ \A i \in RecordsOf(date) :
                   /\ staffing_collection[i].metadata.date = date
                   /\ json_loads(staffing_collection[i].metadata.roles).val
                          = Flattened(LastSave(date).required_roles))
    /\ [][Len(saves') = Len(saves) + 1 =>
            LET call == saves'[Len(saves')]
            IN  /\ (saves # <<>> /\ saves[Len(saves)] = call /\ call.ok) =>
                       staffing_collection' = staffing_collection
                /\ \A i \in DOMAIN staffing_collection :
                       staffing_collection[i].id # call.date =>
                           /\ i \in DOMAIN staffing_collection'
                           /\ staffing_collection'[i] = staffing_collection[i]]_vars

\* three saves, the third overwriting the first: two records, day 8 with the
\* counts saved last
C13_Witness ==
    /\ Len(saves) = 3
    /\ saves[1].date = 8 /\ saves[2].date = 2 /\ saves[3].date = 8
    /\ \A i \in 1..3 : saves[i].ok
    /\ saves[1].required_roles # saves[3].required_roles
    /\ Len(staffing_collection) = 2
    /\ staffing_collection[1].id = 8
    /\ json_loads(staffing_collection[1].metadata.roles).val
           = Flattened(saves[3].required_roles)

Read == averages_out # NotCalled

\* the dates of the records the store holds
StoredDates == {staffing_collection[i].id : i \in DOMAIN staffing_collection}

\* C14: get_staffing_history(days) returns exactly the saved records dated
\* from (days - 1) days before today up to today, both ends included, in
\* ascending order of date; with days = 7 the record dated 6 days before
\* today is among them.
C14_InclusiveWindow ==
    (Read /\ history_out.ok) =>
        LET records == history_out.records
            first_day == now.day - (history_out.days - 1)
        IN  /\ {records[i].date : i \in DOMAIN records}
                   = {d \in StoredDates : first_day <= d /\ d <= now.day}
            /\ \A i \in DOMAIN records : \A j \in DOMAIN records :
                   i < j => records[i].date < records[j].date
            /\ \A i \in DOMAIN records : \E k \in DOMAIN staffing_collection :
                   /\ staffing_collection[k].id = records[i].date
                   /\ records[i].roles = json_loads(staffing_collection[k].metadata.roles)

\* at half past nine, seven days of history are asked for and the record of
\* the day six days before is in the store, yet not in the result
C14_Witness ==
    /\ Read /\ history_out.ok
    /\ history_out.days = 7
    /\ now.hour = 9
    /\ StoredDates = {2, 8}
    /\ Len(history_out.records) = 1
    /\ history_out.records[1].date = 8

\* |a - n/d| <= 1/20 for a value a given in tenths: a is n/d rounded to one
\* decimal
IsRoundedToTenth(a_x10, n, d) ==
    /\ 2 * (a_x10 * d - 10 * n) <= d
    /\ 2 * (10 * n - a_x10 * d) <= d

HistoryKeys == UNION {DOMAIN history_out.records[i].roles.val : i \in DOMAIN history_out.records}

RecordsWith(role) ==
    {i \in DOMAIN history_out.records : role \in DOMAIN history_out.records[i].roles.val}

RECURSIVE SumOver(_, _)
SumOver(indices, role) ==
    IF indices = {} THEN 0
    ELSE LET i == CHOOSE i \in indices : TRUE
         IN  history_out.records[i].roles.val[role] + SumOver(indices \ {i}, role)

\* C15: calculate_moving_averages(days) gives, for each role key of at least
\* one record of the history window, the plain mean of the key's counts over
\* the records that contain the key, rounded to one decimal (3 and 5 give
\* 4.0); without history it gives the empty mapping; it always returns.
C15_MeanOverRecordsWithKey ==
    Read =>
        /\ DOMAIN averages_out = HistoryKeys
        /\ \A role \in HistoryKeys :
               IsRoundedToTenth(averages_out[role], SumOver(RecordsWith(role), role),
                                Cardinality(RecordsWith(role)))
        /\ history_out.records = <<>> => averages_out = EmptyDict
        /\ \A role \in HistoryKeys :
               (/\ Cardinality(RecordsWith(role)) = 2
                /\ SumOver(RecordsWith(role), role) = 3 + 5) => averages_out[role] = 40

\* three records in the window, 3, 5 and 3 inbound forklift drivers (3.7), and
\* one of them alone with a picking count (1.0, not 0.3)
C15_Witness ==
    /\ Read
    /\ Len(history_out.records) = 3
    /\ averages_out[key_inbound_forklift_driver] = 37
    /\ key_picking_forklift_driver \in DOMAIN averages_out
    /\ Cardinality(RecordsWith(key_picking_forklift_driver)) = 1
    /\ averages_out[key_picking_forklift_driver] = 10

-----------------------------------------------------------------------------
(* Name matcher *)

Matched == match_out # NotCalled

LowerCased(str) ==
    [i \in DOMAIN str |->
        IF \E k \in DOMAIN UpperCase : UpperCase[k] = str[i]
        THEN LowerCase[CHOOSE k \in DOMAIN UpperCase : UpperCase[k] = str[i]]
        ELSE str[i]]

\* the names the candidate at position i of the list is compared by: its
\* stored variations, its id when it has none; nothing when the store has no
\* record of it or the stored text cannot be read
ComparedNames(i) ==
    LET at == {k \in DOMAIN employee_collection :
                  employee_collection[k].id = list_in[i]}
        metadata == employee_collection[CHOOSE k \in at : TRUE].metadata
    IN  IF at = {} THEN {}
        ELSE IF "name_variations" \notin DOMAIN metadata THEN {list_in[i]}
        ELSE IF ~metadata.name_variations.valid THEN {}
        ELSE IF metadata.name_variations.list = <<>> THEN {list_in[i]}
        ELSE {metadata.name_variations.list[k] :
                 k \in DOMAIN metadata.name_variations.list}

ExactAt ==
    {i \in DOMAIN list_in :
        \E v \in ComparedNames(i) : LowerCased(v) = LowerCased(name_in)}

DistancesAt(i) ==
    {distance(LowerCased(name_in), LowerCased(v)) : v \in ComparedNames(i)}

\* C16: if some candidate has a name variation equal to the query when both
\* are lower-cased, the first such candidate of the list is returned, whatever
\* distances the candidates before it gave.
C16_ExactMatchFirst ==
    (Matched /\ ExactAt # {}) => match_out = Found(list_in[SetMin(ExactAt)])

\* anni and e2 are one edit from Anna and come first; e1 holds ANNA
C16_Witness ==
    /\ Matched
    /\ name_in = <<"A", "n", "n", "a">>
    /\ list_in = <<<<"a", "n", "n", "i">>, <<"e", "2">>, <<"e", "1">>>>
    /\ match_out = Found(<<"e", "1">>)

-----------------------------------------------------------------------------
(* Role table *)

\* C18: an available employee whose job title is a synonym listed for a base
\* role, in any letter case, is placed under a role key of that base role
\* when one employee is required and nobody else is in the store.
C18_SynonymTitleMatches ==
    (Retrieved /\ Len(employee_collection) = 1) =>
        \A k \in DOMAIN matched_out.val :
            LET title == employee_collection[1].metadata.original_job_title
                afterUnderscore ==
                    SubSeq(k, 1 + SetMin({i \in DOMAIN k : k[i] = "_"}), Len(k))
            IN  (/\ afterUnderscore \in DOMAIN ROLE_MAPPINGS
                 /\ \E i \in DOMAIN ROLE_MAPPINGS[afterUnderscore] :
                        LowerCased(ROLE_MAPPINGS[afterUnderscore][i]) = LowerCased(title)
                 /\ required_in.val[k] = 1)
                => matched_out.val[k] = <<employee_collection[1].id>>

\* the title LIFT DRIVER, a synonym of forklift_driver, and nobody matched
C18_Witness ==
    /\ Retrieved
    /\ Len(employee_collection) = 1
    /\ employee_collection[1].metadata.original_job_title
           = <<"L", "I", "F", "T", " ", "D", "R", "I", "V", "E", "R">>
    /\ required_in.keys = <<s_inbound \o <<"_">> \o s_forklift_driver>>
    /\ matched_out.val[s_inbound \o <<"_">> \o s_forklift_driver] = <<>>

-----------------------------------------------------------------------------
(* Notifications and forecast fetches of a run *)

\* the schedule the run computed
ComputedSchedule ==
    [tomorrow |->
         [date |-> tomorrow_str,
          required_roles |-> locals.required_roles_tomorrow,
          assigned_employees |-> locals.assigned_employees_tomorrow],
     day_after |->
         [date |-> day_after_str,
          required_roles |-> locals.required_roles_day_after,
          assigned_employees |-> locals.assigned_employees_day_after]]

\* the employees a call of send_schedule_email tried to mail, in order
Attempted(call) == [n \in DOMAIN call.attempts |-> call.attempts[n].emp_id]

\* the employees of an assignment, role after role
RECURSIVE EmployeesOf(_, _)
EmployeesOf(roles, assigned_employees) ==
    IF roles = <<>> THEN <<>>
    ELSE assigned_employees.val[Head(roles)] \o EmployeesOf(Tail(roles), assigned_employees)

Notified == pc \in {"sent", "done"} /\ outbox # <<>>

\* C19: whatever happens to the notifications, the run makes the three calls
\* (first day, second day, forecast), each schedule call tries every assigned
\* employee of its day even after an earlier one failed, and the run returns
\* the schedule it computed.
C19_NotificationFailuresContained ==
    Notified =>
        /\ Len(outbox) = 3
        /\ outbox[1].call = "send_schedule_email" /\ outbox[1].date = tomorrow_str
        /\ outbox[2].call = "send_schedule_email" /\ outbox[2].date = day_after_str
        /\ outbox[3].call = "send_combined_forecast_email"
        /\ \A n \in 1..2 :
               outbox[n].configured =>
                   Attempted(outbox[n]) =
                       EmployeesOf(outbox[n].assigned_employees.keys,
                                   outbox[n].assigned_employees)
        /\ pc = "done" => returned = ComputedSchedule

\* the first mail of the first day raised and a later one was sent, a mail
\* of the second day raised, the forecast mail failed, and the schedule is
\* returned
C19_Witness ==
    /\ pc = "done"
    /\ Len(outbox) = 3
    /\ outbox[1].configured
    /\ Len(outbox[1].attempts) >= 2
    /\ outbox[1].attempts[1].delivery = "error"
    /\ outbox[1].attempts[2].delivery = "sent"
    /\ \E n \in DOMAIN outbox[2].attempts : outbox[2].attempts[n].delivery = "error"
    /\ ~outbox[3].result
    /\ returned = ComputedSchedule

\* the three fetches of a day gave nothing: the order requests failed or
\* answered with no order, and the incoming summary reports no pallets
FetchedNothing(fetched) ==
    /\ get_outbound_orders(fetched.outbound) = <<>>
    /\ get_picked_outbound_orders(fetched.picked) = <<>>
    /\ ~fetched.incoming.raised
    /\ fetched.incoming.incoming_pallets = 0

\* C20: a run whose forecast fetches of both days failed or came back empty
\* returns None.
C20_NoDataWhenFetchesEmpty ==
    (/\ pc = "done"
     /\ FetchedNothing(locals.fetched_tomorrow)
     /\ FetchedNothing(locals.fetched_day_after))
    => returned = None

\* on both days the outbound request failed and the picked request answered
\* with no order, and the run returned a schedule
C20_Witness ==
    /\ pc = "done"
    /\ locals.fetched_tomorrow.outbound = RequestFailed
    /\ locals.fetched_tomorrow.picked = Answered(<<>>)
    /\ locals.fetched_day_after.outbound = RequestFailed
    /\ locals.fetched_day_after.picked = Answered(<<>>)
    /\ FetchedNothing(locals.fetched_tomorrow)
    /\ FetchedNothing(locals.fetched_day_after)
    /\ returned = ComputedSchedule

-----------------------------------------------------------------------------
(* Request handler *)

Answered200 == http_response # NotCalled /\ http_response.status_code = 200

\* C21: GET /api/schedule answers 404 when run_scheduler returned no data,
\* 500 with the failure as detail exactly when run_scheduler raised, and 200
\* with the data otherwise.
C21_StatusByOutcome ==
    http_response # NotCalled =>
        IF scheduling_outcome.raised
        THEN /\ http_response.status_code = 500
             /\ http_response.detail.e = scheduling_outcome.exception
        ELSE IF scheduling_outcome.value = None
             THEN http_response.status_code = 404
             ELSE /\ Answered200
                  /\ http_response.body.data = scheduling_outcome.value

\* run_scheduler returned None and the answer is a 500 that embeds the 404
C21_Witness ==
    /\ scheduling_outcome = Returned(None)
    /\ http_response # NotCalled
    /\ http_response.status_code = 500
    /\ http_response.detail.e.status_code = 404

-----------------------------------------------------------------------------
(* Purity of the calculator *)

-----------------------------------------------------------------------------
(* First fit *)

\* the ids placed under the role keys before the j-th
PlacedBefore(j) ==
    UNION {Range(matched_out.val[matched_out.keys[i]]) : i \in 1..(j - 1)}

\* the ids of the listing, in listing order, that are available, match the
\* base role of the j-th role key and are not placed under an earlier key
Candidates(j) ==
    LET ids == [i \in DOMAIN employee_collection |-> employee_collection[i].id]
    IN  SelectSeq(ids,
            LAMBDA id :
                /\ is_employee_available(MetadataOf(id))
                /\ MatchesBaseRole(
                       normalize_role(Get(MetadataOf(id), "original_job_title", <<>>)),
                       BaseRole(matched_out.keys[j]))
                /\ id \notin PlacedBefore(j))

Quota(j) == Flatten(required_in).val[matched_out.keys[j]]

\* C23: retrieve_employees is first-fit: the role keys are served in the
\* order of the input, each receives the first candidates up to its quota,
\* and a later key of the same base role receives somebody only when every
\* earlier key of that base role is full.
C23_FirstFit ==
    (Retrieved /\ matched_out.keys # <<>>) =>
        /\ matched_out.keys = Flatten(required_in).keys
        /\ \A j \in DOMAIN matched_out.keys :
               LET got == matched_out.val[matched_out.keys[j]]
                   n == IF Quota(j) < Len(Candidates(j)) THEN Quota(j)
                        ELSE Len(Candidates(j))
               IN  /\ got = SubSeq(Candidates(j), 1, n)
                   /\ got # <<>> =>
                          \A i \in 1..(j - 1) :
                              BaseRole(matched_out.keys[i]) = BaseRole(matched_out.keys[j])
                              => Len(matched_out.val[matched_out.keys[i]]) = Quota(i)

\* three forklift operators, the first on leave: the inbound key takes the
\* second, the picking key the third
C23_Witness ==
    /\ Retrieved
    /\ Len(employee_collection) = 3
    /\ employee_collection[1].metadata.original_job_title = t_level_2_forklift_driver
    /\ employee_collection[2].metadata.original_job_title = t_forklift_operator
    /\ employee_collection[3].metadata.original_job_title = t_forklift_operator
    /\ required_in.inbound.forklift_driver = 1
    /\ required_in.picking.forklift_driver = 2
    /\ matched_out.keys # <<>>
    /\ matched_out.val[key_inbound_forklift_driver] = <<2>>
    /\ matched_out.val[key_picking_forklift_driver] = <<3>>

-----------------------------------------------------------------------------
(* The two days of a run *)

BothDaysAssigned == "assigned_employees_day_after" \in DOMAIN locals

C25_SingleSnapshot ==
    BothDaysAssigned => Len(listings) = 1

\* a finished run that read the bulk listing twice, once for each day
C25_Witness ==
    /\ pc = "done"
    /\ BothDaysAssigned
    /\ Len(listings) = 2
    /\ listings[1].ok
    /\ listings[2].ok
    /\ AssignedIds(locals.assigned_employees_day_after) # {}

-----------------------------------------------------------------------------
(* Base role of a role key *)

Derived == base_role_out # NotCalled

HasNoUnderscore(str) == \A i \in DOMAIN str : str[i] # "_"

\* C26: the base role of a role key is what follows its first underscore:
\* exactly the leading segment is removed, so that the three forklift keys give
\* forklift_driver and replenishment_staff gives staff; a key without an
\* underscore is its own base role.
C26_AfterFirstUnderscore ==
    Derived =>
        /\ \A n \in DOMAIN role_key_in :
               (role_key_in[n] = "_" /\ HasNoUnderscore(SubSeq(role_key_in, 1, n - 1)))
               => base_role_out.base_role = SubSeq(role_key_in, n + 1, Len(role_key_in))
        /\ HasNoUnderscore(role_key_in) => base_role_out.base_role = role_key_in
        /\ role_key_in \in {RoleKey("inbound", "forklift_driver"),
                            RoleKey("picking", "forklift_driver"),
                            RoleKey("loading", "forklift_driver")}
           => base_role_out.base_role = s_forklift_driver
        /\ role_key_in = RoleKey("replenishment", "staff")
           => base_role_out.base_role = s_staff

\* loading_forklift_driver gave forklift_driver
C26_Witness ==
    /\ Derived
    /\ role_key_in = RoleKey("loading", "forklift_driver")
    /\ base_role_out.base_role = s_forklift_driver

-----------------------------------------------------------------------------
(* History read by the forecast email of a run *)

\* the history records the forecast email has read
HistoryRead == pc = "mailed" /\ history_out # NotCalled

\* the dates this run has written to the store
OwnDates == {saves[i].date : i \in {j \in 1..Len(saves) : saves[j].ok}}

ReadsOwnSave ==
    \E i \in 1..Len(history_out.records) : history_out.records[i].date \in OwnDates

\* C27 as stated: no record dated after the instant of the reading is returned,
\* and the history the forecast email reads never holds a record this run has
\* saved
C27_OwnSavesNeverRead ==
    HistoryRead =>
        /\ \A i \in 1..Len(history_out.records) :
              NotAfter(strptime(history_out.records[i].date), now)
        /\ ~ReadsOwnSave

\* C27 amended: no record dated after the instant of the reading is returned,
\* and the history the forecast email reads holds no record this run has saved
\* when it is read before the midnight that begins the run's tomorrow
C27_OwnSavesReadOnlyPastMidnight ==
    HistoryRead =>
        /\ \A i \in 1..Len(history_out.records) :
              NotAfter(strptime(history_out.records[i].date), now)
        /\ Before(now, date_range.tomorrow_start) => ~ReadsOwnSave

\* the run has saved both days and the email has read an earlier record on the
\* day the run started
C27_Witness ==
    /\ HistoryRead
    /\ Len(saves) = 2 /\ saves[1].ok /\ saves[2].ok
    /\ Before(now, date_range.tomorrow_start)
    /\ history_out.records # <<>>

-----------------------------------------------------------------------------
(* A run that returns no data *)

ReturnedNone == pc = "done" /\ returned = None

\* C28: a run that returns None because the forecast of either day is empty
\* has written no staffing-history record, read no employee listing and sent
\* no email, also when the forecast of the other day was available
C28_NoneLeavesNoTrace ==
    ReturnedNone =>
        /\ staffing_collection = <<>>
        /\ listings = <<>>
        /\ outbox = <<>>

\* the run has returned None with the forecast of exactly one day empty
C28_Witness ==
    /\ ReturnedNone
    /\ (locals.forecast_data_tomorrow = EmptyDict)
           # (locals.forecast_data_day_after = EmptyDict)

-----------------------------------------------------------------------------
(* Operations without a metrics block *)

\* the blocks of the metrics map the calculator looks for, the forecast
\* quantity each one is applied to and the operation of the result it fills
MetricsBlocks == {"inbound", "picking", "load"}

QuantityOf ==
    [inbound |-> "daily_incoming_pallets", picking |-> "cases_to_pick",
     load |-> "staged_pallets"]

OperationOf == [inbound |-> "inbound", picking |-> "picking", load |-> "loading"]

NumberOrMissing(fc, key) == key \notin DOMAIN fc \/ IsNum(fc[key])

\* every headcount of the operation a block stands for is 0
ZeroCounts(block) ==
    \A role \in DOMAIN final_roles[OperationOf[block]] :
        final_roles[OperationOf[block]][role] = 0

\* the quantities the calculation reads outside the block: the two shipping
\* volumes and the quantity of every block that is present
OtherStepsUsable(ms, fc) ==
    /\ NumberOrMissing(fc, "daily_order_qty")
    /\ NumberOrMissing(fc, "daily_shipping_pallets")
    /\ \A other \in DOMAIN ms \cap MetricsBlocks : NumberOrMissing(fc, QuantityOf[other])

-----------------------------------------------------------------------------
(* Records of the employee import *)

\* the metadata the import writes: no availability field at all
ImportShape(m) == DOMAIN m \cap {"active", "on_leave", "shift_preferences"} = {}

\* the three ways a record is turned down
Rejected(m) ==
    \/ "active" \in DOMAIN m /\ m.active = FALSE
    \/ "on_leave" \in DOMAIN m /\ m.on_leave = TRUE
    \/ /\ "shift_preferences" \in DOMAIN m
       /\ m.shift_preferences # <<>>
       /\ \A i \in DOMAIN m.shift_preferences : m.shift_preferences[i] # "day"

PlacedIds == {matched_out.val[p[1]][p[2]] : p \in Places(matched_out)}

\* the employee is placed, or every role key its job title matches is full
PlacedOrCrowdedOut(e) ==
    \/ e.id \in PlacedIds
    \/ \A j \in DOMAIN matched_out.keys :
           MatchesBaseRole(normalize_role(Get(e.metadata, "original_job_title", <<>>)),
                           BaseRole(matched_out.keys[j]))
           => Len(matched_out.val[matched_out.keys[j]]) = Quota(j)

\* C30: a record with none of active, on_leave and shift_preferences, as the
\* import writes it, is not rejected, so it is placed unless the role keys it
\* matches are full; an employee is passed over for its record only when
\* active is present and false, on_leave is present and true, or
\* shift_preferences is non-empty without "day".
C30_ImportedRecordsAvailable ==
    (Retrieved /\ matched_out.keys # <<>>) =>
        \A i \in DOMAIN employee_collection :
            LET e == employee_collection[i]
            IN  /\ ImportShape(e.metadata) => ~Rejected(e.metadata)
                /\ ~Rejected(e.metadata) => PlacedOrCrowdedOut(e)
                /\ Rejected(e.metadata) => e.id \notin PlacedIds

\* an imported forklift operator listed after a driver on leave takes the one
\* inbound forklift place
C30_Witness ==
    /\ Retrieved
    /\ Len(employee_collection) = 2
    /\ employee_collection[1].metadata.original_job_title = t_level_2_forklift_driver
    /\ employee_collection[2].metadata.original_job_title = t_forklift_operator
    /\ ImportShape(employee_collection[2].metadata)
    /\ required_in.inbound.forklift_driver = 1
    /\ matched_out.keys # <<>>
    /\ matched_out.val[key_inbound_forklift_driver] = <<2>>

=============================================================================
